---------------------------- MODULE Spec2Model ----------------------------
(***************************************************************************)
(* A model of the health diagnostic and admission-control engine of        *)
(* diagnostic-mcp.                                                         *)
(*                                                                         *)
(*   - HealthMonitor (http_server.py): the startup / liveness / readiness  *)
(*     / degraded state machine.  Every method is an operator from the     *)
(*     monitor's fields to its fields afterwards (and its returned dict);  *)
(*     one action per public call.  Time is datetime.now() on a grid of    *)
(*     one second.                                                         *)
(*   - handle_check_all_health (server.py): the batch scheduler, its       *)
(*     semaphore, and the stdio / http probes, one task per descriptor.    *)
(*   - RateLimiter and AuthManager (auth.py): the sliding window of token  *)
(*     creations and the life of a session token.                          *)
(***************************************************************************)
EXTENDS Integers, Sequences, FiniteSets, TLC

(***************************************************************************)
(* Bounds of the model.                                                    *)
(***************************************************************************)
\* the last instant of the clock
MaxTime == 6
\* record_request is called at most this many times
MaxRequests == 4
\* the same two bounds for the long bursts of failures that liveness is about
MaxBurstTime == 2
MaxBurst == 11
\* entries of mcp_servers.json
MaxServers == 2
PoolTasks == 18
\* requests to /tool/{tool_name} in flight at the same time
MaxHandlers == 3
\* the last instant of the clock of the rate limiter, and its calls
MaxLimiterTime == 5
MaxLimiterCalls == 5
\* the last instant of the clock of the AuthManager, and the calls of
\* create_token
MaxAuthTime == 3
MaxCreates == 2

(***************************************************************************)
(* Program constants.                                                      *)
(***************************************************************************)
\* get_liveness: "self.failure_count < 10"
CriticalFailures == 10

\* handle_check_all_health: "max_concurrent_stdio = 16"
max_concurrent_stdio == 16

\* Python's None for an Optional[datetime] / Optional[int] (times are >= 0)
None == -1

(***************************************************************************)
(* Constructor inputs of HealthMonitor.  degraded_threshold is a float in  *)
(* the code; the model keeps it in hundredths (25 is 0.25) and compares    *)
(* failed/total with it exactly, which is what the float comparison gives  *)
(* for these dyadic thresholds and small counters.                         *)
(***************************************************************************)
AllowedRejectionsInputs == {1}
SamplingIntervalInputs == {1}
RecoveryIntervalInputs == {None, 0, 3}
StartupDurationInputs == {0, 2}
DegradedThresholdInputs == {25, 50}

VARIABLES
    clock,      \* datetime.now(), in seconds since the monitor was built
    monitor,    \* the fields of the HealthMonitor instance
    hm_ret,     \* the last call on the monitor and the dict it returned
    all_mcp_servers, \* parse_mcp_servers()["mcpServers"], in the dict's order
    critical_only,   \* the argument of handle_check_all_health
    server_checks,   \* the (name, transport) pairs built for the batch
    tasks,           \* one coroutine per entry of server_checks
    stdio_semaphore, \* the value of asyncio.Semaphore(max_concurrent_stdio)
    batch,           \* where the handler is, and the result it returns
    pool,            \* a large batch of stdio probes: how many are where
    handlers,        \* the call_tool_endpoint coroutines of the requests
    rate_limiter,    \* the fields of the RateLimiter instance
    limiter_calls,   \* the calls of is_allowed so far, and what they returned
    tokens,          \* MemoryTokenStorage.tokens, by token_id
    issued,          \* how many token ids uuid4 has given out
    auth_ret,        \* the last call on the AuthManager and what it returned
    failed_since_ready, \* history: a failure was recorded since the monitor
                     \* last became ready (kept by the watched calls only)
    SSE_TIMEOUT,     \* the module-level SSE_TIMEOUT of server.py
    invocations      \* overlapping calls of handle_check_all_health: where
                     \* each is, its timeout and its original_timeout

hmVars == <<clock, monitor, hm_ret>>

\* what only the watched monitor and the overlapping invocations change
otherVars == <<failed_since_ready, SSE_TIMEOUT, invocations>>

\* the session tokens and the rate limiter of auth.py
authVars == <<rate_limiter, limiter_calls, tokens, issued, auth_ret>>

\* the requests of the HTTP server, which the batch leaves alone
requestVars == <<handlers, rate_limiter, limiter_calls, tokens, issued,
                 auth_ret>>

\* the batch, which the requests leave alone
schedulerVars == <<all_mcp_servers, critical_only, server_checks, tasks,
                   stdio_semaphore, batch, pool>>

batchVars == <<all_mcp_servers, critical_only, server_checks, tasks,
               stdio_semaphore, batch, pool, handlers, rate_limiter,
               limiter_calls, tokens, issued, auth_ret>>

vars == <<clock, monitor, hm_ret, all_mcp_servers, critical_only,
          server_checks, tasks, stdio_semaphore, batch, pool, handlers,
          rate_limiter, limiter_calls, tokens, issued, auth_ret,
          failed_since_ready, SSE_TIMEOUT, invocations>>

\* the clients that ask for tokens
Clients == {"10.0.0.1", "10.0.0.2"}

\* RateLimiter.__init__
RateLimiterInit(max_attempts, window_seconds) ==
    [max_attempts |-> max_attempts, window |-> window_seconds,
     attempts |-> [c \in Clients |-> << >>]]

\* no call on the AuthManager yet.  token is the token, or the token_id,
\* that the call was about; removed is the number that cleanup returns.
NoAuthRet == [op |-> "init", token |-> 0, result |-> FALSE, removed |-> 0]

\* An AuthManager with the default rate limiter and an empty storage, which
\* nobody calls (the state of the variables of auth.py in the
\* specifications of the monitor and of the batch).
AuthIdle ==
    /\ rate_limiter = RateLimiterInit(5, 60)
    /\ limiter_calls = << >>
    /\ tokens = << >>
    /\ issued = 0
    /\ auth_ret = NoAuthRet

\* The coroutines of a batch of stdio probes, counted by where they are:
\* not started, holding a permit before the spawn, running with a spawned
\* subprocess, in the finally clause after proc.terminate(), ended with a
\* dict (done) or with an exception (raised).
NoPool ==
    [created |-> 0, spawning |-> 0, spawned |-> 0, teardown |-> 0, done |-> 0,
     raised |-> 0]

\* server.py, line 83: SSE_TIMEOUT = 5
SSE_TIMEOUT_default == 5

\* Nothing is watched and no invocation overlaps another.
OthersIdle ==
    /\ failed_since_ready = FALSE
    /\ SSE_TIMEOUT = SSE_TIMEOUT_default
    /\ invocations = << >>

\* No batch is running and no request is in flight.
SchedulerIdle ==
    /\ handlers = << >>
    /\ pool = NoPool
    /\ all_mcp_servers = << >>
    /\ critical_only = FALSE
    /\ server_checks = << >>
    /\ tasks = << >>
    /\ stdio_semaphore = 0
    /\ batch = [phase |-> "idle"]

\* the state of the other variables in the specifications of the monitor
BatchIdle ==
    /\ AuthIdle
    /\ SchedulerIdle

(***************************************************************************)
(* HealthMonitor                                                           *)
(***************************************************************************)

\* HealthMonitor.__init__
HealthMonitorInit(allowed, sampling, recovery, startup, threshold, now) ==
    [ allowed_rejections  |-> allowed,
      sampling_interval   |-> sampling,
      \* "recovery_interval_seconds or (sampling_interval_seconds * 2)":
      \* None and 0 are both falsy
      recovery_interval   |-> IF recovery = None \/ recovery = 0
                              THEN sampling * 2
                              ELSE recovery,
      startup_duration    |-> startup,
      degraded_threshold  |-> threshold,
      server_start_time   |-> now,
      rejection_count     |-> 0,
      last_sampling_reset |-> now,
      is_ready            |-> FALSE,
      unready_since       |-> None,
      total_requests      |-> 0,
      failed_requests     |-> 0,
      failure_count       |-> 0 ]

\* _check_readiness, line 150: still in the startup phase
in_startup_never(m, now) == FALSE

in_startup(m, now) == now - m.server_start_time < m.startup_duration

\* the trip without "and self.is_ready": it moves unready_since again
over_threshold_while_unready(m) == m.rejection_count > m.allowed_rejections

\* _check_readiness, line 154
over_threshold_or_equal(m) ==
    m.rejection_count >= m.allowed_rejections /\ m.is_ready

over_threshold(m) == m.rejection_count > m.allowed_rejections /\ m.is_ready

\* _check_readiness, line 165
recovery_elapsed_or_equal(m, now) ==
    now - m.unready_since >= m.recovery_interval

recovery_elapsed(m, now) == now - m.unready_since > m.recovery_interval

\* _check_readiness, line 169
startup_completed_with_since(m) == ~m.is_ready /\ m.unready_since # None

startup_completed(m) == ~m.is_ready /\ m.unready_since = None

\* _check_readiness with a recovery that leaves unready_since as it was
check_readiness_keeping_since(m, now) ==
    IF in_startup(m, now)
    THEN [monitor |-> m, logged |-> "-"]
    ELSE IF over_threshold(m)
    THEN [monitor |-> [m EXCEPT !.is_ready = FALSE, !.unready_since = now],
          logged |-> "UNREADY"]
    ELSE IF ~m.is_ready /\ m.unready_since # None
    THEN IF recovery_elapsed(m, now)
         THEN [monitor |-> [m EXCEPT !.is_ready = TRUE],
               logged |-> "READY_recovery"]
         ELSE [monitor |-> m, logged |-> "-"]
    ELSE IF startup_completed(m)
    THEN [monitor |-> [m EXCEPT !.is_ready = TRUE], logged |-> "READY_startup"]
    ELSE [monitor |-> m, logged |-> "-"]

\* HealthMonitor._check_readiness: the monitor afterwards, and which of the
\* three log lines ("Server marked UNREADY", "Server marked READY: recovery
\* period elapsed", "Server marked READY: startup completed") it wrote
check_readiness(m, now) ==
    IF in_startup(m, now)
    THEN [monitor |-> m, logged |-> "-"]
    ELSE IF over_threshold(m)
    THEN [monitor |-> [m EXCEPT !.is_ready = FALSE, !.unready_since = now],
          logged |-> "UNREADY"]
    ELSE IF ~m.is_ready /\ m.unready_since # None
    THEN IF recovery_elapsed(m, now)
         THEN [monitor |-> [m EXCEPT !.is_ready = TRUE, !.unready_since = None],
               logged |-> "READY_recovery"]
         ELSE [monitor |-> m, logged |-> "-"]
    ELSE IF startup_completed(m)
    THEN [monitor |-> [m EXCEPT !.is_ready = TRUE], logged |-> "READY_startup"]
    ELSE [monitor |-> m, logged |-> "-"]

\* record_request with a failure that is left out of failed_requests
record_counters_uncounted_failure(m, success) ==
    IF ~success
    THEN [m EXCEPT !.total_requests = @ + 1,
                   !.rejection_count = @ + 1,
                   !.failure_count = @ + 1]
    ELSE [m EXCEPT !.total_requests = @ + 1,
                   !.failure_count = 0]

\* record_request with the reset on success left out
record_counters_no_reset(m, success) ==
    IF ~success
    THEN [m EXCEPT !.total_requests = @ + 1,
                   !.failed_requests = @ + 1,
                   !.rejection_count = @ + 1,
                   !.failure_count = @ + 1]
    ELSE [m EXCEPT !.total_requests = @ + 1]

\* record_request, lines 129-138: the counters
record_counters(m, success) ==
    IF ~success
    THEN [m EXCEPT !.total_requests = @ + 1,
                   !.failed_requests = @ + 1,
                   !.rejection_count = @ + 1,
                   !.failure_count = @ + 1]
    ELSE [m EXCEPT !.total_requests = @ + 1,
                   !.failure_count = 0]

\* the sampling window with the reset done before _check_readiness
sampling_rollover_reset_first(m, now) ==
    IF now - m.last_sampling_reset > m.sampling_interval
    THEN LET r == [m EXCEPT !.rejection_count = 0,
                            !.last_sampling_reset = now]
         IN [monitor |-> check_readiness(r, now).monitor,
             logged |-> check_readiness(r, now).logged,
             checked |-> now]
    ELSE [monitor |-> m, logged |-> "-", checked |-> None]

\* record_request, lines 140-145: the sampling window.  "checked" is the
\* time _check_readiness was called with, None when it was not called.
sampling_rollover(m, now) ==
    IF now - m.last_sampling_reset > m.sampling_interval
    THEN [monitor |-> [check_readiness(m, now).monitor
                          EXCEPT !.rejection_count = 0,
                                 !.last_sampling_reset = now],
          logged |-> check_readiness(m, now).logged,
          checked |-> now]
    ELSE [monitor |-> m, logged |-> "-", checked |-> None]

\* HealthMonitor.record_request
record_request(m, success, now) ==
    sampling_rollover(record_counters(m, success), now)

\* What a call did and the dict it returned, as far as the probes read it.
\* recovery_interval_seconds is the argument of that name of __init__.
NoRet == [op |-> "init", startup |-> "-", liveness |-> "-", readiness |-> "-",
          degraded |-> FALSE, reason |-> "-", overall |-> "-",
          logged |-> "-", checked |-> None, recovery_interval_seconds |-> None]

\* HealthMonitor.get_startup_status: result["status"]
startup_status(m, now) ==
    IF now - m.server_start_time >= m.startup_duration THEN "UP" ELSE "DOWN"

\* HealthMonitor.get_liveness: result["status"]
liveness_status(m) ==
    IF m.failure_count < CriticalFailures THEN "UP" ELSE "DOWN"

\* the forced check, resetting the window as record_request does
readiness_forced_check_with_reset(m, now) == sampling_rollover(m, now)

\* get_readiness, lines 233-236: the forced check
readiness_forced_check(m, now) ==
    IF now - m.last_sampling_reset > m.sampling_interval
    THEN [monitor |-> check_readiness(m, now).monitor,
          logged |-> check_readiness(m, now).logged,
          checked |-> now]
    ELSE [monitor |-> m, logged |-> "-", checked |-> None]

\* the degraded flag computed without looking at is_ready
is_degraded_ignoring_ready(m) ==
    IF m.total_requests > 0
    THEN m.failed_requests * 100 >= m.degraded_threshold * m.total_requests
    ELSE 0 >= m.degraded_threshold

\* get_readiness, lines 238-244: error_rate >= degraded_threshold and is_ready
\* (error_rate is 0.0 when total_requests is 0)
is_degraded(m) ==
    /\ IF m.total_requests > 0
       THEN m.failed_requests * 100 >= m.degraded_threshold * m.total_requests
       ELSE 0 >= m.degraded_threshold
    /\ m.is_ready

\* get_readiness, lines 263-273: result["reason"]
readiness_reason(m) ==
    IF ~m.is_ready /\ m.unready_since # None THEN "rejection_threshold_exceeded"
    ELSE IF ~m.is_ready THEN "startup_incomplete"
    ELSE "-"

\* HealthMonitor.get_readiness: the monitor afterwards and the dict returned
get_readiness(m, now) ==
    LET c == readiness_forced_check(m, now) IN
    [ monitor |-> c.monitor,
      ret |-> [NoRet EXCEPT !.op = "get_readiness",
                            !.readiness = IF c.monitor.is_ready THEN "UP"
                                          ELSE "DOWN",
                            !.degraded = is_degraded(c.monitor),
                            !.reason = readiness_reason(c.monitor),
                            !.logged = c.logged,
                            !.checked = c.checked] ]

\* get_probe_status, lines 290-300
overall_status_startup_first(startup, liveness, readiness, degraded) ==
    IF startup = "DOWN" THEN "starting"
    ELSE IF liveness = "DOWN" THEN "critical"
    ELSE IF readiness = "DOWN" THEN "unready"
    ELSE IF degraded THEN "degraded"
    ELSE "healthy"

overall_status(startup, liveness, readiness, degraded) ==
    IF liveness = "DOWN" THEN "critical"
    ELSE IF startup = "DOWN" THEN "starting"
    ELSE IF readiness = "DOWN" THEN "unready"
    ELSE IF degraded THEN "degraded"
    ELSE "healthy"

\* HealthMonitor.get_probe_status: get_startup_status reads the clock at now1,
\* get_readiness at now3 >= now1
get_probe_status(m, now1, now3) ==
    LET r == get_readiness(m, now3)
        s == startup_status(m, now1)
        l == liveness_status(m)
    IN [ monitor |-> r.monitor,
         ret |-> [r.ret EXCEPT !.op = "get_probe_status",
                               !.startup = s,
                               !.liveness = l,
                               !.overall = overall_status(s, l, r.ret.readiness,
                                                          r.ret.degraded)] ]

(***************************************************************************)
(* The calls on the monitor, and the passing of time.                      *)
(***************************************************************************)
InitHM ==
    /\ clock = 0
    /\ OthersIdle
    /\ \E ar \in AllowedRejectionsInputs, si \in SamplingIntervalInputs,
          ri \in RecoveryIntervalInputs, sd \in StartupDurationInputs,
          dt \in DegradedThresholdInputs :
            /\ monitor = HealthMonitorInit(ar, si, ri, sd, dt, 0)
            /\ hm_ret = [NoRet EXCEPT !.recovery_interval_seconds = ri]
    /\ BatchIdle

TickUpTo(last) ==
    /\ clock < last
    /\ clock' = clock + 1
    /\ UNCHANGED <<monitor, hm_ret>>
    /\ UNCHANGED batchVars
    /\ UNCHANGED otherVars

Tick == TickUpTo(MaxTime)

RecordOutcomeUpTo(calls) ==
    /\ monitor.total_requests < calls
    /\ \E success \in BOOLEAN :
        /\ monitor' = record_request(monitor, success, clock).monitor
        /\ hm_ret' = [NoRet EXCEPT
                !.op = IF success THEN "record_success" ELSE "record_failure",
                !.logged = record_request(monitor, success, clock).logged,
                !.checked = record_request(monitor, success, clock).checked]
    /\ UNCHANGED clock
    /\ UNCHANGED batchVars
    /\ UNCHANGED otherVars

RecordOutcome == RecordOutcomeUpTo(MaxRequests)

Recompute ==
    /\ monitor' = check_readiness(monitor, clock).monitor
    /\ hm_ret' = [NoRet EXCEPT !.op = "check_readiness",
                               !.logged = check_readiness(monitor, clock).logged,
                               !.checked = clock]
    /\ UNCHANGED clock
    /\ UNCHANGED batchVars
    /\ UNCHANGED otherVars

GetStartupStatus ==
    /\ hm_ret' = [NoRet EXCEPT !.op = "get_startup_status",
                               !.startup = startup_status(monitor, clock)]
    /\ UNCHANGED <<clock, monitor>>
    /\ UNCHANGED batchVars
    /\ UNCHANGED otherVars

GetLiveness ==
    /\ hm_ret' = [NoRet EXCEPT !.op = "get_liveness",
                               !.liveness = liveness_status(monitor)]
    /\ UNCHANGED <<clock, monitor>>
    /\ UNCHANGED batchVars
    /\ UNCHANGED otherVars

GetReadiness ==
    /\ monitor' = get_readiness(monitor, clock).monitor
    /\ hm_ret' = get_readiness(monitor, clock).ret
    /\ UNCHANGED clock
    /\ UNCHANGED batchVars
    /\ UNCHANGED otherVars

GetProbeStatusUpTo(last) ==
    \E now3 \in {clock, clock + 1} :
        /\ now3 <= last
        /\ monitor' = get_probe_status(monitor, clock, now3).monitor
        /\ hm_ret' = get_probe_status(monitor, clock, now3).ret
        /\ clock' = now3
        /\ UNCHANGED batchVars
        /\ UNCHANGED otherVars

GetProbeStatus == GetProbeStatusUpTo(MaxTime)

NextHM ==
    \/ Tick
    \/ RecordOutcome
    \/ Recompute
    \/ GetStartupStatus
    \/ GetLiveness
    \/ GetReadiness
    \/ GetProbeStatus

SpecHM == InitHM /\ [][NextHM]_vars

(***************************************************************************)
(* Bursts of failures: one configuration (the one of the tests of the      *)
(* rejection threshold, allowed_rejections = 5, with and without a startup *)
(* phase), a short stretch of time and up to MaxBurst recorded outcomes.   *)
(***************************************************************************)
BurstAllowedRejections == 5

InitBurst ==
    /\ clock = 0
    /\ OthersIdle
    /\ \E sd \in StartupDurationInputs :
         monitor = HealthMonitorInit(BurstAllowedRejections, 1, None, sd, 25, 0)
    /\ hm_ret = NoRet
    /\ BatchIdle

BurstTick == TickUpTo(MaxBurstTime)

BurstRecordOutcome == RecordOutcomeUpTo(MaxBurst)

BurstGetProbeStatus == GetProbeStatusUpTo(MaxBurstTime)

NextBurst ==
    \/ BurstTick
    \/ BurstRecordOutcome
    \/ Recompute
    \/ GetStartupStatus
    \/ GetLiveness
    \/ GetReadiness
    \/ BurstGetProbeStatus

SpecBurst == InitBurst /\ [][NextBurst]_vars

(***************************************************************************)
(* create_app.call_tool_endpoint: the requests to /tool/{tool_name}.  Each *)
(* request is a coroutine on the one event loop; an action is the code it  *)
(* runs between two awaits ("await request.json()", "await tool_func()").  *)
(* record_request runs in the step that follows the tool's end.            *)
(***************************************************************************)
InitHandlers ==
    /\ clock = 0
    /\ OthersIdle
    /\ monitor = HealthMonitorInit(1, 1, None, 0, 25, 0)
    /\ hm_ret = NoRet
    /\ BatchIdle

\* a coroutine at its first await; recorded is what it has passed to
\* record_request ("-": nothing yet), seen the value of total_requests and
\* failed_requests when it began to await the tool
NoCounters == [total_requests |-> 0, failed_requests |-> 0]

NewHandler == [pc |-> "parsing", recorded |-> "-", seen |-> NoCounters]

\* call_tool_endpoint, lines 532-540: a request comes in
HandlerArrives ==
    /\ Len(handlers) < MaxHandlers
    /\ handlers' = Append(handlers, NewHandler)
    /\ UNCHANGED hmVars
    /\ UNCHANGED otherVars
    /\ UNCHANGED schedulerVars
    /\ UNCHANGED authVars

\* call_tool_endpoint, lines 541-575: the body is read; an unknown tool is
\* answered with 404 (nothing is recorded), a known one is called
HandlerParsed(h) ==
    /\ h \in DOMAIN handlers
    /\ handlers[h].pc = "parsing"
    /\ \E known \in BOOLEAN :
         handlers' = [handlers EXCEPT
                        ![h].pc = IF known THEN "calling" ELSE "done",
                        ![h].seen =
                            IF known
                            THEN [total_requests |-> monitor.total_requests,
                                  failed_requests |-> monitor.failed_requests]
                            ELSE NoCounters]
    /\ UNCHANGED hmVars
    /\ UNCHANGED otherVars
    /\ UNCHANGED schedulerVars
    /\ UNCHANGED authVars

\* record_request working on the counters read before the await
counters_before_the_await(m, seen) ==
    [m EXCEPT !.total_requests = seen.total_requests,
              !.failed_requests = seen.failed_requests]

\* record_request, lines 129-134: "+= 1" reads the fields of the monitor
\* in the step that writes them
counters_at_call(m, seen) == m

\* call_tool_endpoint, lines 575-608: the tool returns (record_request(True))
\* or raises TypeError or another exception (record_request(False))
HandlerToolEnds(h) ==
    /\ h \in DOMAIN handlers
    /\ handlers[h].pc = "calling"
    /\ \E outcome \in {"returned", "TypeError", "Exception"} :
         LET success == outcome = "returned"
             r == record_request(counters_at_call(monitor, handlers[h].seen),
                                 success, clock)
         IN /\ monitor' = r.monitor
            /\ hm_ret' = [NoRet EXCEPT
                    !.op = IF success THEN "record_success"
                           ELSE "record_failure",
                    !.logged = r.logged,
                    !.checked = r.checked]
            /\ handlers' = [handlers EXCEPT
                    ![h].pc = "done",
                    ![h].seen = NoCounters,
                    ![h].recorded = IF success THEN "success" ELSE "failure"]
    /\ UNCHANGED clock
    /\ UNCHANGED schedulerVars
    /\ UNCHANGED authVars
    /\ UNCHANGED otherVars

NextHandlers ==
    \/ BurstTick
    \/ HandlerArrives
    \/ \E h \in 1..MaxHandlers : HandlerParsed(h)
    \/ \E h \in 1..MaxHandlers : HandlerToolEnds(h)
    \/ BurstGetProbeStatus

SpecHandlers == InitHandlers /\ [][NextHandlers]_vars

(***************************************************************************)
(* RateLimiter (auth.py).  is_allowed has no await: a call is one step.    *)
(* Time is datetime.now() on a grid of one second.                         *)
(***************************************************************************)
MaxAttemptsInputs == {1, 2}
WindowSecondsInputs == {2}

\* is_allowed, lines 55-59, with an attempt at the cutoff kept
prune_keeping_cutoff(attempts, now, window) ==
    SelectSeq(attempts, LAMBDA attempt : attempt >= now - window)

\* is_allowed, lines 55-59: the attempts that are not older than the window
prune(attempts, now, window) ==
    SelectSeq(attempts, LAMBDA attempt : attempt > now - window)

\* RateLimiter.is_allowed: the limiter afterwards and the value returned
is_allowed(rl, client_id, now) ==
    LET kept == prune(rl.attempts[client_id], now, rl.window)
        under == Len(kept) < rl.max_attempts
    IN  [limiter |-> [rl EXCEPT !.attempts[client_id] =
                                    IF under THEN Append(kept, now) ELSE kept],
         allowed |-> under]

InitLimiter ==
    /\ clock = 0
    /\ OthersIdle
    /\ monitor = HealthMonitorInit(1, 1, None, 0, 25, 0)
    /\ hm_ret = NoRet
    /\ SchedulerIdle
    /\ \E ma \in MaxAttemptsInputs, ws \in WindowSecondsInputs :
          rate_limiter = RateLimiterInit(ma, ws)
    /\ limiter_calls = << >>
    /\ tokens = << >>
    /\ issued = 0
    /\ auth_ret = NoAuthRet

LimiterTick ==
    /\ clock < MaxLimiterTime
    /\ clock' = clock + 1
    /\ UNCHANGED <<monitor, hm_ret>>
    /\ UNCHANGED batchVars
    /\ UNCHANGED otherVars

IsAllowed ==
    /\ Len(limiter_calls) < MaxLimiterCalls
    /\ \E client_id \in Clients :
         LET r == is_allowed(rate_limiter, client_id, clock) IN
            /\ rate_limiter' = r.limiter
            /\ limiter_calls' = Append(limiter_calls,
                    [client |-> client_id, at |-> clock, allowed |-> r.allowed])
    /\ UNCHANGED hmVars
    /\ UNCHANGED otherVars
    /\ UNCHANGED schedulerVars
    /\ UNCHANGED <<handlers, tokens, issued, auth_ret>>

NextLimiter ==
    \/ LimiterTick
    \/ IsAllowed

SpecLimiter == InitLimiter /\ [][NextLimiter]_vars

(***************************************************************************)
(* AuthManager over a MemoryTokenStorage (auth.py).  The methods of the    *)
(* storage are coroutines that never suspend, so a call on the manager is  *)
(* one step.  uuid4 gives a fresh value at every call: the n-th token made *)
(* has token_id n, and its plaintext (and hash) is n as well.  No admin    *)
(* token is configured.  Time is datetime.now() on a grid of one hour, and *)
(* the window of the rate limiter is one hour.                             *)
(***************************************************************************)
\* AuthManager(default_ttl_hours=2)
default_ttl == 2

\* the ttl_hours of create_token
TtlHoursInputs == {None, 0, 1}

\* the token ids and the plaintext tokens that the calls name
TokenIds == 1..MaxCreates

\* create_token, line 315
ttl_of(ttl_hours) ==
    IF ttl_hours = None \/ ttl_hours = 0 THEN default_ttl ELSE ttl_hours

\* list_active_tokens without the test of revoked_at
list_active_tokens_with_revoked(toks, now) ==
    {id \in DOMAIN toks : toks[id].expires_at > now}

\* MemoryTokenStorage.list_active_tokens: the ids of the tokens listed
list_active_tokens(toks, now) ==
    {id \in DOMAIN toks :
        toks[id].revoked_at = None /\ toks[id].expires_at > now}

\* AuthManager.validate_token, lines 360-379
validate_token(toks, token, now) ==
    \E id \in list_active_tokens(toks, now) :
        /\ toks[id].token = token
        /\ toks[id].expires_at > now

\* MemoryTokenStorage.cleanup_expired: the tokens that stay
cleanup_expired(toks, now) ==
    [id \in {i \in DOMAIN toks : toks[i].expires_at > now} |-> toks[id]]

InitAuth ==
    /\ clock = 0
    /\ OthersIdle
    /\ monitor = HealthMonitorInit(1, 1, None, 0, 25, 0)
    /\ hm_ret = NoRet
    /\ SchedulerIdle
    /\ rate_limiter = RateLimiterInit(2, 1)
    /\ limiter_calls = << >>
    /\ tokens = << >>
    /\ issued = 0
    /\ auth_ret = NoAuthRet

AuthTick ==
    /\ clock < MaxAuthTime
    /\ clock' = clock + 1
    /\ UNCHANGED <<monitor, hm_ret>>
    /\ UNCHANGED batchVars
    /\ UNCHANGED otherVars

\* AuthManager.create_token
CreateToken ==
    /\ Len(limiter_calls) < MaxCreates
    /\ \E client_id \in Clients, ttl_hours \in TtlHoursInputs :
         LET r == is_allowed(rate_limiter, client_id, clock)
             token_id == issued + 1
         IN /\ rate_limiter' = r.limiter
            /\ limiter_calls' = Append(limiter_calls,
                    [client |-> client_id, at |-> clock, allowed |-> r.allowed])
            /\ IF r.allowed
               THEN /\ tokens' = [id \in DOMAIN tokens \cup {token_id} |->
                                     IF id = token_id
                                     THEN [token |-> token_id,
                                           expires_at |-> clock + ttl_of(ttl_hours),
                                           revoked_at |-> None]
                                     ELSE tokens[id]]
                    /\ issued' = token_id
                    /\ auth_ret' = [NoAuthRet EXCEPT !.op = "create_token",
                                                     !.token = token_id,
                                                     !.result = TRUE]
               ELSE /\ auth_ret' = [NoAuthRet EXCEPT !.op = "create_token"]
                    /\ UNCHANGED <<tokens, issued>>
    /\ UNCHANGED hmVars
    /\ UNCHANGED otherVars
    /\ UNCHANGED schedulerVars
    /\ UNCHANGED handlers

\* AuthManager.validate_token
ValidateToken ==
    /\ \E token \in TokenIds :
         auth_ret' = [NoAuthRet EXCEPT
                         !.op = "validate_token",
                         !.token = token,
                         !.result = validate_token(tokens, token, clock)]
    /\ UNCHANGED hmVars
    /\ UNCHANGED otherVars
    /\ UNCHANGED schedulerVars
    /\ UNCHANGED <<handlers, rate_limiter, limiter_calls, tokens, issued>>

\* AuthManager.revoke_token and MemoryTokenStorage.revoke_token
RevokeToken ==
    /\ \E token_id \in TokenIds :
         IF token_id \in DOMAIN tokens
         THEN /\ tokens' = [tokens EXCEPT ![token_id].revoked_at = clock]
              /\ auth_ret' = [NoAuthRet EXCEPT !.op = "revoke_token",
                                               !.token = token_id,
                                               !.result = TRUE]
         ELSE /\ auth_ret' = [NoAuthRet EXCEPT !.op = "revoke_token",
                                               !.token = token_id]
              /\ UNCHANGED tokens
    /\ UNCHANGED hmVars
    /\ UNCHANGED otherVars
    /\ UNCHANGED schedulerVars
    /\ UNCHANGED <<handlers, rate_limiter, limiter_calls, issued>>

\* AuthManager.cleanup_expired_tokens and MemoryTokenStorage.cleanup_expired
CleanupExpired ==
    /\ tokens' = cleanup_expired(tokens, clock)
    /\ auth_ret' = [NoAuthRet EXCEPT
                       !.op = "cleanup_expired_tokens",
                       !.removed = Cardinality(DOMAIN tokens)
                                     - Cardinality(DOMAIN tokens')]
    /\ UNCHANGED hmVars
    /\ UNCHANGED otherVars
    /\ UNCHANGED schedulerVars
    /\ UNCHANGED <<handlers, rate_limiter, limiter_calls, issued>>

NextAuth ==
    \/ AuthTick
    \/ CreateToken
    \/ ValidateToken
    \/ RevokeToken
    \/ CleanupExpired

SpecAuth == InitAuth /\ [][NextAuth]_vars

(***************************************************************************)
(* handle_check_all_health: the registry, the probes and the scheduler.    *)
(*                                                                         *)
(* A server's config is one of seven kinds, by what the code reads of it:  *)
(*   stdio              "command" set                                      *)
(*   stdio_no_command   "command" present and empty                        *)
(*   stdio_bad_from     "command" set, args hold "--from" followed by a    *)
(*                      value that is no path: check_venv_health raises    *)
(*                      before check_stdio_server enters its try block     *)
(*   http               "transport" with a "url"                           *)
(*   http_no_url        "transport" without "url"                          *)
(*   http_bad_transport "transport" that is no dict: transport.get raises  *)
(*   unknown            neither "transport" nor "command"                  *)
(* A task is one coroutine check_server_with_semaphore; an action is the   *)
(* code the coroutine runs between two awaits.  The subprocess of a stdio  *)
(* probe is "alive", "exited" (dead, the event loop has not seen it yet:   *)
(* proc.returncode is None) or "reaped" (proc.returncode is set).          *)
(***************************************************************************)
ServerNames == <<"diagnostic-mcp", "ref-mcp", "github-mcp", "weather-mcp">>

CRITICAL_SERVERS ==
    {"diagnostic-mcp", "knowledge-mcp", "github-mcp", "docker-mcp",
     "system-ops-mcp"}

ConfigKinds ==
    {"stdio", "stdio_no_command", "stdio_bad_from",
     "http", "http_no_url", "http_bad_transport", "unknown"}

\* get_transport_type
get_transport_type(kind) ==
    IF kind \in {"http", "http_no_url", "http_bad_transport"} THEN "http"
    ELSE IF kind \in {"stdio", "stdio_no_command", "stdio_bad_from"} THEN "stdio"
    ELSE "unknown"

\* every server checked, critical_only or not
select_servers_unfiltered(servers, critical) == servers

\* handle_check_all_health, lines 1665-1674: the servers to check
RECURSIVE select_servers(_, _)
select_servers(servers, critical) ==
    IF servers = << >> THEN << >>
    ELSE IF critical /\ Head(servers).name \notin CRITICAL_SERVERS
    THEN select_servers(Tail(servers), critical)
    ELSE <<Head(servers)>> \o select_servers(Tail(servers), critical)

\* handle_check_all_health, lines 1677-1683
build_server_checks(servers) ==
    [i \in 1..Len(servers) |->
        [name |-> servers[i].name, kind |-> servers[i].kind,
         transport |-> get_transport_type(servers[i].kind)]]

\* no dict
NoDict == [status |-> "-", note |-> "-"]

\* a coroutine that has not run yet.  lost is the dict that the coroutine
\* was about to return when an exception of its finally clause replaced it.
\* http_status is the key of that name in the dict of check_http_server,
\* 0 where the dict has no such key.  spawns and gets count the calls of
\* create_subprocess_exec that returned a process and of requests.get.
NewTask ==
    [pc |-> "created", proc |-> "none", status |-> "-", note |-> "-",
     alt |-> FALSE, transport |-> "-", spawns |-> 0, teardowns |-> 0,
     lost |-> NoDict, http_status |-> 0, gets |-> 0]

\* a coroutine returns the dict (status, note; alt: the dict carries a
\* non-empty alternative_transports); its local proc goes out of scope
returned(t, transport, status, note, alt) ==
    [t EXCEPT !.pc = "done", !.status = status, !.note = note, !.alt = alt,
              !.transport = transport, !.proc = "none"]

\* a coroutine ends with an exception
raised(t, note) ==
    [t EXCEPT !.pc = "done", !.status = "raised", !.note = note,
              !.alt = FALSE, !.proc = "none"]

\* the finally clause is over: the pending dict is returned, or the pending
\* exception goes on
finished(t) ==
    IF t.status = "raised" THEN raised(t, t.note)
    ELSE returned(t, t.transport, t.status, t.note, t.alt)

\* partial without a look at alternative_transports
exit_status_always_partial(alt) == "partial"

\* the test of alternative_transports the wrong way round
exit_status_inverted(alt) == IF alt THEN "offline" ELSE "partial"

\* check_stdio_server, lines 584, 629, 703, 741: the process has exited
exit_status(alt) == IF alt THEN "partial" ELSE "offline"

\* an exception taken for a server that is down
except_status_offline(alt) == IF alt THEN "partial" ELSE "offline"

\* check_stdio_server, lines 763, 784, 805: the except clauses
except_status(alt) == IF alt THEN "partial" ELSE "error"

\* What proc.terminate() can do.  Popen.send_signal polls first and sends
\* nothing to a process that has ended ("ok"); asyncio raises
\* ProcessLookupError once it has seen the process end and closed the
\* transport; os.kill of a live child that runs under another uid raises
\* PermissionError.
SignalOutcomes(proc) ==
    IF proc = "reaped" THEN {"ok", "ProcessLookupError"}
    ELSE IF proc = "alive" THEN {"ok", "PermissionError"}
    ELSE {"ok"}

\* proc.terminate() in a step that may or may not reach the finally clause
TerminateOutcomes(proc, reached) ==
    IF reached THEN SignalOutcomes(proc) ELSE {"ok"}

\* check_stdio_server, lines 501-514: whether the scan of the ports found
\* another transport of this server (alternative_transports is not empty).
\* The scan runs first and nothing changes its result; it is drawn in the
\* step that reads it.
AltOutcomes(read) == IF read THEN BOOLEAN ELSE {FALSE}

\* check_stdio_server, lines 823-840, up to the first await: the finally
\* clause, entered with the dict to return (or the exception to raise)
\* pending.  It runs proc.terminate() when a subprocess was spawned.
finally_skipping_teardown(t, status, note, alt, term) ==
    IF status = "raised" THEN raised(t, note)
    ELSE returned(t, "stdio", status, note, alt)

finally_clause(t, status, note, alt, term) ==
    IF t.proc = "none"
    THEN IF status = "raised" THEN raised(t, note)
         ELSE returned(t, "stdio", status, note, alt)
    ELSE LET u == [t EXCEPT !.teardowns = @ + 1] IN
         IF term = "ok"
         THEN [u EXCEPT !.pc = "wait1", !.status = status, !.note = note,
                        !.alt = alt, !.transport = "stdio"]
         ELSE IF term = "ProcessLookupError"
         THEN IF status = "raised" THEN raised(u, note)
              ELSE returned(u, "stdio", status, note, alt)
         ELSE raised([u EXCEPT !.lost = [status |-> status, note |-> note]],
                     "terminate failed")

\* "async with semaphore": a stdio coroutine takes a permit when it starts
\* and gives it back when it ends, whether it returns or raises
semaphore_released_at_start(value, old, new) ==
    value - (IF old.pc = "created" THEN 1 ELSE 0)
          + (IF new.pc # "created" THEN 1 ELSE 0)

\* a semaphore released by hand after the call, with no "async with": the
\* permit of a coroutine that raises is kept
semaphore_kept_on_raise(value, old, new) ==
    value - (IF old.pc = "created" THEN 1 ELSE 0)
          + (IF new.pc = "done" /\ new.status # "raised" THEN 1 ELSE 0)

semaphore_after(value, old, new) ==
    value - (IF old.pc = "created" THEN 1 ELSE 0)
          + (IF new.pc = "done" THEN 1 ELSE 0)

InitBatch ==
    /\ clock = 0
    /\ OthersIdle
    /\ monitor = HealthMonitorInit(1, 1, None, 0, 25, 0)
    /\ hm_ret = NoRet
    /\ all_mcp_servers \in
         { [i \in 1..MaxServers |-> [name |-> ServerNames[i], kind |-> k[i]]] :
              k \in [1..MaxServers -> ConfigKinds] }
    /\ critical_only \in BOOLEAN
    /\ server_checks = << >>
    /\ tasks = << >>
    /\ stdio_semaphore = 0
    /\ batch = [phase |-> "idle"]
    /\ pool = NoPool
    /\ handlers = << >>
    /\ AuthIdle

\* handle_check_all_health, lines 1647-1716, up to "await asyncio.gather"
StartBatch ==
    /\ batch.phase = "idle"
    /\ server_checks' =
         build_server_checks(select_servers(all_mcp_servers, critical_only))
    /\ tasks' = [i \in 1..Len(server_checks') |-> NewTask]
    /\ stdio_semaphore' = max_concurrent_stdio
    /\ batch' = [phase |-> "gathering"]
    /\ UNCHANGED <<all_mcp_servers, critical_only, pool>>
    /\ UNCHANGED hmVars
    /\ UNCHANGED otherVars
    /\ UNCHANGED requestVars

\* task i runs one step and becomes new
Step(i, new) ==
    /\ tasks' = [tasks EXCEPT ![i] = new]
    /\ stdio_semaphore' =
         IF server_checks[i].transport = "stdio"
         THEN semaphore_after(stdio_semaphore, tasks[i], new)
         ELSE stdio_semaphore
    /\ UNCHANGED <<all_mcp_servers, critical_only, server_checks, batch, pool>>
    /\ UNCHANGED hmVars
    /\ UNCHANGED otherVars
    /\ UNCHANGED requestVars

Running(i, pc) ==
    /\ batch.phase = "gathering"
    /\ i \in DOMAIN tasks
    /\ tasks[i].pc = pc

\* check_server_with_semaphore, line 1693, and check_stdio_server, lines
\* 495-572: the permit, the diagnostics, the command, up to the await of
\* create_subprocess_exec
StdioStart(i) ==
    /\ Running(i, "created")
    /\ server_checks[i].transport = "stdio"
    /\ stdio_semaphore > 0
    /\ \E alt \in AltOutcomes(server_checks[i].kind = "stdio_no_command") :
         Step(i, CASE server_checks[i].kind = "stdio_bad_from" ->
                        raised(tasks[i], "check_venv_health raised")
                   [] server_checks[i].kind = "stdio_no_command" ->
                        returned(tasks[i], "stdio", "error",
                                 "no command specified", alt)
                   [] OTHER -> [tasks[i] EXCEPT !.pc = "spawning"])

\* check_stdio_server, lines 565-577 and 761-822: create_subprocess_exec
\* returns or raises
StdioSpawn(i) ==
    /\ Running(i, "spawning")
    /\ \E outcome \in {"ok", "FileNotFoundError", "PermissionError", "OSError"} :
       \E alt \in AltOutcomes(outcome # "ok") :
         Step(i, CASE outcome = "ok" ->
                        [tasks[i] EXCEPT !.pc = "settling", !.proc = "alive",
                                         !.spawns = @ + 1]
                   [] outcome = "FileNotFoundError" ->
                        finally_clause(tasks[i], except_status(alt),
                                       "command not found", alt, "ok")
                   [] outcome = "PermissionError" ->
                        finally_clause(tasks[i], except_status(alt),
                                       "permission denied", alt, "ok")
                   [] OTHER ->
                        finally_clause(tasks[i], except_status(alt),
                                       "exception", alt, "ok"))

\* the subprocess ends
ProcExits(i) ==
    /\ batch.phase = "gathering"
    /\ i \in DOMAIN tasks
    /\ tasks[i].pc # "done"
    /\ tasks[i].proc = "alive"
    /\ Step(i, [tasks[i] EXCEPT !.proc = "exited"])

\* the event loop sees that the subprocess has ended: returncode is set
ProcReaped(i) ==
    /\ batch.phase = "gathering"
    /\ i \in DOMAIN tasks
    /\ tasks[i].pc # "done"
    /\ tasks[i].proc = "exited"
    /\ Step(i, [tasks[i] EXCEPT !.proc = "reaped"])

\* check_stdio_server, lines 577-622: after the sleep, the returncode and
\* the write of the initialize request
StdioSettled(i) ==
    /\ Running(i, "settling")
    /\ Step(i, IF tasks[i].proc = "reaped"
               THEN [tasks[i] EXCEPT !.pc = "stderr",
                                     !.note = "exited immediately"]
               ELSE [tasks[i] EXCEPT !.pc = "draining"])

\* check_stdio_server, lines 619-654 and 803-822: write and drain return or
\* raise
StdioDrained(i) ==
    /\ Running(i, "draining")
    /\ \E outcome \in {"ok", "BrokenPipeError", "Exception"} :
       \E alt \in AltOutcomes(outcome = "Exception"),
          term \in TerminateOutcomes(tasks[i].proc, outcome = "Exception") :
         Step(i, CASE outcome = "ok" -> [tasks[i] EXCEPT !.pc = "reading"]
                   [] outcome = "BrokenPipeError" ->
                        IF tasks[i].proc = "reaped"
                        THEN [tasks[i] EXCEPT !.pc = "stderr",
                                              !.note = "broken pipe"]
                        ELSE [tasks[i] EXCEPT !.pc = "reading",
                                              !.note = "broken pipe"]
                   [] OTHER ->
                        finally_clause(tasks[i], except_status(alt),
                                       "exception", alt, term))

\* What the await of readline gives: a line (a JSON-RPC response, another
\* JSON value that "in" works on, a JSON number, boolean or null, text that
\* is no JSON, bytes that are no UTF-8), the empty line of end of file, or
\* the timeout.
ReadOutcomes ==
    {"response", "json_other", "json_scalar", "not_json", "not_utf8",
     "eof", "timeout"}

\* check_stdio_server, lines 649-759 and 803-822: what the probe makes of
\* the outcome of readline, as <<status, note>>; status "stderr" stands for
\* "read stderr, then classify as exited"
classify_read(outcome, proc, alt) ==
    CASE outcome = "response" -> <<"online", "-">>
      [] outcome = "json_other" -> <<"online", "non-standard response">>
      [] outcome = "not_json" -> <<"online", "non-json response">>
      [] outcome \in {"json_scalar", "not_utf8"} ->
            <<except_status(alt), "exception">>
      [] outcome = "eof" ->
            IF proc # "reaped"
            THEN <<"online", "process running (no immediate response)">>
            ELSE <<"stderr", "empty response">>
      [] OTHER ->
            IF proc # "reaped"
            THEN <<"online", "slow response (process running)">>
            ELSE <<"stderr", "timeout">>

StdioRead(i) ==
    /\ Running(i, "reading")
    /\ \E outcome \in ReadOutcomes :
       \E alt \in AltOutcomes(outcome \in {"json_scalar", "not_utf8"}),
          term \in TerminateOutcomes(tasks[i].proc,
                    classify_read(outcome, tasks[i].proc, FALSE)[1] # "stderr") :
         LET c == classify_read(outcome, tasks[i].proc, alt) IN
         Step(i, IF c[1] = "stderr"
                 THEN [tasks[i] EXCEPT !.pc = "stderr", !.note = c[2]]
                 ELSE finally_clause(tasks[i], c[1], c[2],
                                     alt /\ c[1] # "online", term))

\* check_stdio_server, lines 581-602, 626-647, 700-721, 738-759: stderr
\* has been read to its end; the dict of an exited process
StdioStderrRead(i) ==
    /\ Running(i, "stderr")
    /\ \E alt \in BOOLEAN, term \in SignalOutcomes(tasks[i].proc) :
         Step(i, finally_clause(tasks[i], exit_status(alt), tasks[i].note,
                                alt, term))

\* check_stdio_server, lines 829-838: the first wait returns, or times out
\* and the process is killed (proc.terminate() went through on this process
\* in the step before, with the same check of permission, and returncode is
\* still None: proc.kill() goes through)
StdioWait1_always_kill(i) ==
    /\ Running(i, "wait1")
    /\ Step(i, [tasks[i] EXCEPT !.pc = "wait2"])

StdioWait1(i) ==
    /\ Running(i, "wait1")
    /\ \/ /\ tasks[i].proc = "reaped"
          /\ Step(i, finished(tasks[i]))
       \/ /\ tasks[i].proc # "reaped"
          /\ Step(i, [tasks[i] EXCEPT !.pc = "wait2"])

\* check_stdio_server, lines 836-838: the second wait returns or times out
StdioWait2(i) ==
    /\ Running(i, "wait2")
    /\ Step(i, finished(tasks[i]))

\* check_server_with_semaphore, line 1696, and check_http_server, lines
\* 863-881: up to the await of the GET
HttpStart(i) ==
    /\ Running(i, "created")
    /\ server_checks[i].transport = "http"
    /\ Step(i, CASE server_checks[i].kind = "http_bad_transport" ->
                      raised(tasks[i], "transport.get raised")
                 [] server_checks[i].kind = "http_no_url" ->
                      returned(tasks[i], "http", "error", "no URL specified",
                               FALSE)
                 [] OTHER -> [tasks[i] EXCEPT !.pc = "requesting",
                                              !.gets = @ + 1])

\* What requests.get gives: a response with its status code (exc is "-"),
\* or an exception
GetOutcomes ==
    {[exc |-> "-", code |-> c] : c \in {200, 404, 302}}
      \cup {[exc |-> e, code |-> 0] :
               e \in {"Timeout", "ConnectionError", "Exception"}}

\* a response of 400 and above taken for a failure
classify_get_by_code(outcome) ==
    CASE outcome.exc = "Timeout" -> <<"offline", "timeout">>
      [] outcome.exc = "ConnectionError" -> <<"offline", "connection_refused">>
      [] outcome.exc = "Exception" -> <<"error", "exception">>
      [] outcome.code \in {200, 201, 202, 204, 101} -> <<"online", "-">>
      [] outcome.code >= 400 -> <<"error", "reachable but returned an error">>
      [] OTHER -> <<"online", "unexpected status code">>

\* check_http_server, lines 882-937
classify_get(outcome) ==
    CASE outcome.exc = "Timeout" -> <<"offline", "timeout">>
      [] outcome.exc = "ConnectionError" -> <<"offline", "connection_refused">>
      [] outcome.exc = "Exception" -> <<"error", "exception">>
      [] outcome.code \in {200, 201, 202, 204, 101} -> <<"online", "-">>
      [] outcome.code \in {400, 401, 403, 404, 405, 500, 502, 503} ->
            <<"online", "reachable but returned an error">>
      [] OTHER -> <<"online", "unexpected status code">>

\* a GET that is sent once more after a timeout
HttpResponse_retrying(i) ==
    /\ Running(i, "requesting")
    /\ \E outcome \in GetOutcomes :
         Step(i, IF outcome.exc = "Timeout" /\ tasks[i].gets < 2
                 THEN [tasks[i] EXCEPT !.gets = @ + 1]
                 ELSE [returned(tasks[i], "http", classify_get(outcome)[1],
                                classify_get(outcome)[2], FALSE)
                          EXCEPT !.http_status = outcome.code])

HttpResponse(i) ==
    /\ Running(i, "requesting")
    /\ \E outcome \in GetOutcomes :
         Step(i, [returned(tasks[i], "http", classify_get(outcome)[1],
                           classify_get(outcome)[2], FALSE)
                     EXCEPT !.http_status = outcome.code])

\* check_server_with_semaphore, lines 1697-1703
UnknownStart(i) ==
    /\ Running(i, "created")
    /\ server_checks[i].transport = "unknown"
    /\ Step(i, returned(tasks[i], "unknown", "error",
                        "unknown transport type", FALSE))

\* handle_check_all_health, lines 1718-1732: exceptions become error dicts
convert_dropping_exceptions(checks, ts) ==
    SelectSeq([i \in 1..Len(ts) |->
                  [name |-> checks[i].name, transport |-> ts[i].transport,
                   status |-> ts[i].status]],
              LAMBDA r : r.status # "raised")

convert_ignoring_exceptions(checks, ts) ==
    [i \in 1..Len(ts) |->
        [name |-> checks[i].name, transport |-> ts[i].transport,
         status |-> ts[i].status]]

convert_results(checks, ts) ==
    [i \in 1..Len(ts) |->
        IF ts[i].status = "raised"
        THEN [name |-> checks[i].name, transport |-> checks[i].transport,
              status |-> "error"]
        ELSE [name |-> checks[i].name, transport |-> ts[i].transport,
              status |-> ts[i].status]]

\* len([r for r in results if r["status"] == status and, when a transport
\* is given, r.get("transport") == transport])
count(results, status, transport) ==
    Cardinality({i \in DOMAIN results :
                    /\ results[i].status = status
                    /\ transport \in {"any", results[i].transport}})

\* [r for r in results if r["status"] == status]
with_status(results, status) ==
    SelectSeq(results, LAMBDA r : r.status = status)

\* handle_check_all_health, lines 1734-1778.  results is the local list;
\* the other fields are the keys of the dict that is returned.
summarize(results) ==
    [ phase |-> "returned",
      results |-> results,
      online_servers |-> with_status(results, "online"),
      offline_servers |-> with_status(results, "offline"),
      error_servers |-> with_status(results, "error"),
      servers_online |-> count(results, "online", "any"),
      servers_offline |-> count(results, "offline", "any"),
      servers_error |-> count(results, "error", "any"),
      total_checked |-> Len(results),
      stdio |-> [online |-> count(results, "online", "stdio"),
                 offline |-> count(results, "offline", "stdio"),
                 error |-> count(results, "error", "stdio")],
      http |-> [online |-> count(results, "online", "http"),
                offline |-> count(results, "offline", "http"),
                error |-> count(results, "error", "http")] ]

\* handle_check_all_health, lines 1716-1791: gather is done
Gathered ==
    /\ batch.phase = "gathering"
    /\ \A i \in DOMAIN tasks : tasks[i].pc = "done"
    /\ batch' = summarize(convert_results(server_checks, tasks))
    /\ UNCHANGED <<all_mcp_servers, critical_only, server_checks, tasks,
                   stdio_semaphore, pool>>
    /\ UNCHANGED hmVars
    /\ UNCHANGED otherVars
    /\ UNCHANGED requestVars

NextBatch ==
    \/ StartBatch
    \/ \E i \in 1..MaxServers + 1 : StdioStart(i)
    \/ \E i \in 1..MaxServers + 1 : StdioSpawn(i)
    \/ \E i \in 1..MaxServers + 1 : ProcExits(i)
    \/ \E i \in 1..MaxServers + 1 : ProcReaped(i)
    \/ \E i \in 1..MaxServers + 1 : StdioSettled(i)
    \/ \E i \in 1..MaxServers + 1 : StdioDrained(i)
    \/ \E i \in 1..MaxServers + 1 : StdioRead(i)
    \/ \E i \in 1..MaxServers + 1 : StdioStderrRead(i)
    \/ \E i \in 1..MaxServers + 1 : StdioWait1(i)
    \/ \E i \in 1..MaxServers + 1 : StdioWait2(i)
    \/ \E i \in 1..MaxServers + 1 : HttpStart(i)
    \/ \E i \in 1..MaxServers + 1 : HttpResponse(i)
    \/ \E i \in 1..MaxServers + 1 : UnknownStart(i)
    \/ Gathered

SpecBatch == InitBatch /\ [][NextBatch]_vars

(***************************************************************************)
(* handle_check_all_health with one server configured: one probe, from the *)
(* call to its result.                                                     *)
(***************************************************************************)
InitProbe ==
    /\ clock = 0
    /\ OthersIdle
    /\ monitor = HealthMonitorInit(1, 1, None, 0, 25, 0)
    /\ hm_ret = NoRet
    /\ \E k \in ConfigKinds :
         all_mcp_servers = <<[name |-> ServerNames[1], kind |-> k]>>
    /\ critical_only \in BOOLEAN
    /\ server_checks = << >>
    /\ tasks = << >>
    /\ stdio_semaphore = 0
    /\ batch = [phase |-> "idle"]
    /\ pool = NoPool
    /\ handlers = << >>
    /\ AuthIdle

SpecProbe == InitProbe /\ [][NextBatch]_vars

\* The steps of a coroutine that the code itself brings about: a step that
\* runs after an await that returns of itself (create_subprocess_exec, the
\* sleep, the drain of a request smaller than the pipe) or that is wrapped
\* in asyncio.wait_for (readline, proc.wait) or carries a timeout
\* (requests.get).  "await proc.stderr.read()" is not among them: it has no
\* timeout and returns when every holder of the pipe has closed it, which is
\* up to the subprocess and its descendants.  Nor are the steps of the
\* subprocess.
BoundedStep(i) ==
    \/ StdioStart(i)
    \/ StdioSpawn(i)
    \/ StdioSettled(i)
    \/ StdioDrained(i)
    \/ StdioRead(i)
    \/ StdioWait1(i)
    \/ StdioWait2(i)
    \/ HttpStart(i)
    \/ HttpResponse(i)
    \/ UnknownStart(i)

\* one probe, with the event loop running every step that is ready
FairProbe ==
    /\ SpecProbe
    /\ WF_vars(StartBatch)
    /\ \A i \in 1..MaxServers + 1 : WF_vars(BoundedStep(i))
    /\ WF_vars(Gathered)

(***************************************************************************)
(* handle_check_all_health with more stdio servers than the semaphore has  *)
(* permits.  Every server is a stdio server with a command; the coroutines *)
(* run the same code, so the state keeps how many of them are at each      *)
(* place (pool) in place of one record for each.  A place is the pc of the *)
(* coroutines there: "created", "spawning" (inside "async with", awaiting  *)
(* create_subprocess_exec), "spawned" (proc is set, the try body runs),    *)
(* "teardown" (the finally clause awaits proc.wait()), "done"; "raised" is  *)
(* the place of the coroutines that ended with an exception.               *)
(***************************************************************************)
InitPool ==
    /\ clock = 0
    /\ OthersIdle
    /\ monitor = HealthMonitorInit(1, 1, None, 0, 25, 0)
    /\ hm_ret = NoRet
    /\ BatchIdle

\* handle_check_all_health, lines 1647-1716, with n stdio servers configured
PoolStartBatch ==
    /\ batch.phase = "idle"
    /\ \E n \in 1..PoolTasks : pool' = [NoPool EXCEPT !.created = n]
    /\ stdio_semaphore' = max_concurrent_stdio
    /\ batch' = [phase |-> "gathering"]
    /\ UNCHANGED <<all_mcp_servers, critical_only, server_checks, tasks>>
    /\ UNCHANGED hmVars
    /\ UNCHANGED otherVars
    /\ UNCHANGED requestVars

\* one coroutine goes from one place to another
PoolStep(from, to) ==
    /\ pool' = [pool EXCEPT ![from] = @ - 1, ![to] = @ + 1]
    /\ stdio_semaphore' =
         semaphore_after(stdio_semaphore,
                         [pc |-> from, status |-> "-"],
                         IF to = "raised"
                         THEN [pc |-> "done", status |-> "raised"]
                         ELSE [pc |-> to, status |-> "-"])
    /\ UNCHANGED <<all_mcp_servers, critical_only, server_checks, tasks, batch>>
    /\ UNCHANGED hmVars
    /\ UNCHANGED otherVars
    /\ UNCHANGED requestVars

\* check_server_with_semaphore, line 1693: "async with semaphore" goes on
\* when the semaphore has a permit
PoolStdioStart ==
    /\ batch.phase = "gathering"
    /\ pool.created > 0
    /\ stdio_semaphore > 0
    /\ PoolStep("created", "spawning")

\* check_stdio_server, lines 565-572: create_subprocess_exec returns
PoolSpawned ==
    /\ batch.phase = "gathering"
    /\ pool.spawning > 0
    /\ PoolStep("spawning", "spawned")

\* check_stdio_server, lines 761-840: create_subprocess_exec raises; proc is
\* None in the finally clause
PoolSpawnFailed ==
    /\ batch.phase = "gathering"
    /\ pool.spawning > 0
    /\ PoolStep("spawning", "done")

\* check_stdio_server, lines 577-830: the try body ends, proc.terminate() is
\* called and the finally clause awaits proc.wait()
PoolTerminated ==
    /\ batch.phase = "gathering"
    /\ pool.spawned > 0
    /\ PoolStep("spawned", "teardown")

\* check_stdio_server, lines 577-840: the try body ends and proc.terminate()
\* raises ProcessLookupError, which the finally clause swallows
PoolTerminateRaised ==
    /\ batch.phase = "gathering"
    /\ pool.spawned > 0
    /\ PoolStep("spawned", "done")

\* check_stdio_server, lines 577-840: the try body ends and proc.terminate()
\* raises another exception, which leaves the coroutine
PoolTerminateFailed ==
    /\ batch.phase = "gathering"
    /\ pool.spawned > 0
    /\ PoolStep("spawned", "raised")

\* check_stdio_server, lines 829-838: the waits of the finally clause end
PoolTornDown ==
    /\ batch.phase = "gathering"
    /\ pool.teardown > 0
    /\ PoolStep("teardown", "done")

\* handle_check_all_health, lines 1716-1791: gather is done
PoolGathered ==
    /\ batch.phase = "gathering"
    /\ pool.created + pool.spawning + pool.spawned + pool.teardown = 0
    /\ batch' = [phase |-> "returned",
                 total_checked |-> pool.done + pool.raised]
    /\ UNCHANGED <<all_mcp_servers, critical_only, server_checks, tasks,
                   stdio_semaphore, pool>>
    /\ UNCHANGED hmVars
    /\ UNCHANGED otherVars
    /\ UNCHANGED requestVars

NextPool ==
    \/ PoolStartBatch
    \/ PoolStdioStart
    \/ PoolSpawned
    \/ PoolSpawnFailed
    \/ PoolTerminated
    \/ PoolTerminateRaised
    \/ PoolTerminateFailed
    \/ PoolTornDown
    \/ PoolGathered

SpecPool == InitPool /\ [][NextPool]_vars

(***************************************************************************)
(* Properties of HealthMonitor.                                            *)
(***************************************************************************)

\* The step is a call on the monitor that ran _check_readiness; the time it
\* was called with is hm_ret'.checked.
RecomputeCalled ==
    /\ hm_ret' # hm_ret \/ monitor' # monitor
    /\ hm_ret'.checked # None

\* rejection_count as _check_readiness reads it in this step: record_request
\* has counted the outcome before it calls _check_readiness.
RejectionsAtCall ==
    monitor.rejection_count + (IF hm_ret'.op = "record_failure" THEN 1 ELSE 0)

\* C5: _check_readiness, called after startup has elapsed while the monitor
\* is ready, marks it unready with unready_since = now if and only if
\* rejection_count is strictly greater than allowed_rejections; otherwise
\* (equality included) the monitor stays ready and unready_since stays unset.
C5_TripsIffOverThreshold ==
    [][ ( /\ RecomputeCalled
          /\ hm_ret'.checked - monitor.server_start_time
                >= monitor.startup_duration
          /\ monitor.is_ready )
        => IF RejectionsAtCall > monitor.allowed_rejections
           THEN /\ ~monitor'.is_ready
                /\ monitor'.unready_since = hm_ret'.checked
           ELSE /\ monitor'.is_ready
                /\ monitor'.unready_since = None ]_vars

\* a direct _check_readiness has just tripped readiness
C5_Witness ==
    /\ hm_ret.op = "check_readiness"
    /\ hm_ret.logged = "UNREADY"
    /\ ~monitor.is_ready
    /\ monitor.unready_since = clock
    /\ monitor.rejection_count = monitor.allowed_rejections + 1

\* C6: while unready with unready_since set, a _check_readiness at a time
\* with now - unready_since <= recovery_interval leaves the monitor unready
\* (unready_since kept), and one with now - unready_since > recovery_interval
\* makes it ready and clears unready_since.
C6_RecoversOnlyAfterInterval ==
    [][ ( /\ RecomputeCalled
          /\ ~monitor.is_ready
          /\ monitor.unready_since # None )
        => IF hm_ret'.checked - monitor.unready_since
                > monitor.recovery_interval
           THEN /\ monitor'.is_ready
                /\ monitor'.unready_since = None
           ELSE /\ ~monitor'.is_ready
                /\ monitor'.unready_since = monitor.unready_since ]_vars

\* readiness has just been restored, one tick after the interval elapsed
C6_Witness ==
    /\ hm_ret.logged = "READY_recovery"
    /\ monitor.is_ready
    /\ monitor.unready_since = None
    /\ clock >= monitor.recovery_interval + 1

\* C7: while now - server_start_time < startup_duration the monitor is not
\* ready and unready_since is unset, whatever was recorded or recomputed.
C7_StartupHoldsReadiness ==
    (clock - monitor.server_start_time < monitor.startup_duration)
        => (~monitor.is_ready /\ monitor.unready_since = None)

\* during startup, _check_readiness has just run with the threshold exceeded
C7_Witness ==
    /\ clock - monitor.server_start_time < monitor.startup_duration
    /\ hm_ret.op = "check_readiness"
    /\ hm_ret.checked = clock
    /\ monitor.rejection_count > monitor.allowed_rejections

\* C8: with startup_duration = 0 and no failure recorded, a _check_readiness
\* leaves the monitor ready with unready_since unset; it writes "startup
\* completed" exactly when the monitor was not ready before (the first call),
\* and no other transition is logged.
C8_ReadyOnceAfterStartup ==
    [][ ( /\ RecomputeCalled
          /\ monitor.startup_duration = 0
          /\ monitor'.failed_requests = 0 )
        => /\ monitor'.is_ready
           /\ monitor'.unready_since = None
           /\ (hm_ret'.logged = "READY_startup") <=> ~monitor.is_ready
           /\ hm_ret'.logged \in {"-", "READY_startup"} ]_vars

\* the first _check_readiness of a monitor with startup_duration = 0
C8_Witness ==
    /\ monitor.startup_duration = 0
    /\ monitor.failed_requests = 0
    /\ hm_ret.op = "check_readiness"
    /\ hm_ret.logged = "READY_startup"
    /\ monitor.is_ready

\* C9: get_liveness reports DOWN if and only if failure_count is at least
\* 10; failure_count is the number of failures recorded since the last
\* success (a failure adds one, a success sets it to 0), so liveness is UP
\* right after a success.
C9_LivenessFollowsConsecutiveFailures ==
    /\ [](hm_ret.op \in {"get_liveness", "get_probe_status"}
            => (hm_ret.liveness = "DOWN" <=> monitor.failure_count >= 10))
    /\ [](hm_ret.op = "record_success"
            => monitor.failure_count = 0 /\ liveness_status(monitor) = "UP")
    /\ [][ /\ (hm_ret'.op = "record_failure" /\ monitor' # monitor)
                => monitor'.failure_count = monitor.failure_count + 1
           /\ (hm_ret'.op = "record_success" /\ monitor' # monitor)
                => monitor'.failure_count = 0
           /\ hm_ret'.op \notin {"record_failure", "record_success"}
                => monitor'.failure_count = monitor.failure_count ]_vars

\* ten failures in a row, and get_liveness says DOWN
C9_Witness ==
    /\ hm_ret.op = "get_liveness"
    /\ hm_ret.liveness = "DOWN"
    /\ monitor.failure_count = 10

\* C10: the degraded flag of get_readiness is true if and only if the
\* monitor is ready and failed_requests / total_requests >= degraded_threshold
\* (the rate is 0 with no request); it is false when readiness is DOWN.
C10_DegradedIffReadyAndOverRate ==
    hm_ret.op \in {"get_readiness", "get_probe_status"}
        => /\ hm_ret.readiness = (IF monitor.is_ready THEN "UP" ELSE "DOWN")
           /\ hm_ret.degraded
                <=> ( /\ monitor.is_ready
                      /\ IF monitor.total_requests = 0
                         THEN monitor.degraded_threshold <= 0
                         ELSE monitor.failed_requests * 100
                                >= monitor.degraded_threshold
                                     * monitor.total_requests )
           /\ hm_ret.readiness = "DOWN" => ~hm_ret.degraded

\* get_readiness answers DOWN and not degraded although the error rate is
\* over the threshold
C10_Witness ==
    /\ hm_ret.op = "get_readiness"
    /\ hm_ret.readiness = "DOWN"
    /\ ~hm_ret.degraded
    /\ monitor.total_requests > 0
    /\ monitor.failed_requests * 100
         >= monitor.degraded_threshold * monitor.total_requests



(***************************************************************************)
(* Properties of the batch.                                                *)
(***************************************************************************)

\* the names of a sequence of records, with their numbers of occurrences
Occurrences(seq, name) ==
    Cardinality({j \in DOMAIN seq : seq[j].name = name})

\* C1: the results of a batch hold exactly one result for the name of every
\* descriptor of the batch, and no other: none is missing, none is there
\* twice, whether its probe returned, raised, or had an unknown transport.
C1_OneResultPerDescriptor ==
    batch.phase = "returned"
        => /\ Len(batch.results) = Len(server_checks)
           /\ \A i \in DOMAIN server_checks :
                 /\ Occurrences(server_checks, server_checks[i].name) = 1
                 /\ Occurrences(batch.results, server_checks[i].name) = 1
           /\ \A j \in DOMAIN batch.results :
                 Occurrences(server_checks, batch.results[j].name) = 1

\* a batch of a probe that raised and a descriptor of unknown transport
C1_Witness ==
    /\ batch.phase = "returned"
    /\ Len(batch.results) = 2
    /\ tasks[1].status = "raised"
    /\ server_checks[2].transport = "unknown"
    /\ batch.results[1].name = "diagnostic-mcp"
    /\ batch.results[2].name = "ref-mcp"

\* the subprocesses that probes hold: spawned, the finally clause not over
PoolLive == pool.spawned + pool.teardown

\* C2: whatever the size of the batch and the interleaving, at most 16
\* stdio probes hold a spawned subprocess that is not torn down yet: every
\* probe between "async with" and the end of its finally clause holds one
\* of the 16 permits.
C2_SpawnedWithinPool ==
    batch.phase = "gathering"
        => /\ PoolLive <= max_concurrent_stdio
           /\ stdio_semaphore >= 0
           /\ stdio_semaphore + pool.spawning + PoolLive = max_concurrent_stdio

\* 16 subprocesses are held, one of them in teardown, and a probe waits
C2_Witness ==
    /\ batch.phase = "gathering"
    /\ PoolLive = max_concurrent_stdio
    /\ pool.teardown > 0
    /\ pool.created > 0
    /\ stdio_semaphore = 0

\* C3: a stdio probe that spawned its subprocess has run the teardown (the
\* finally clause with proc set) exactly once when it ends, on every path;
\* before that and without a subprocess the teardown has not run.
C3_TeardownOncePerSpawn ==
    \A i \in DOMAIN tasks :
        /\ tasks[i].spawns <= 1
        /\ tasks[i].teardowns <= tasks[i].spawns
        /\ tasks[i].pc = "done" => tasks[i].teardowns = tasks[i].spawns
        /\ tasks[i].pc \in {"settling", "draining", "reading", "stderr"}
              => tasks[i].spawns = 1 /\ tasks[i].teardowns = 0
        /\ tasks[i].pc \in {"wait1", "wait2"}
              => tasks[i].spawns = 1 /\ tasks[i].teardowns = 1

\* the results are out; one probe timed out on a dead process, the other got
\* its response, and both ran the teardown once
C3_Witness ==
    /\ batch.phase = "returned"
    /\ Len(tasks) = 2
    /\ tasks[1].note = "timeout"
    /\ tasks[1].status = "offline"
    /\ tasks[2].status = "online"
    /\ \A i \in {1, 2} : tasks[i].spawns = 1 /\ tasks[i].teardowns = 1

\* C4: a probe that raised gives an error result with the name and the
\* transport of its own descriptor, at its own place; every other result is
\* the dict that its probe returned.
C4_RaisedProbeIsItsOwnError ==
    batch.phase = "returned"
        => \A i \in DOMAIN tasks :
              /\ i \in DOMAIN batch.results
              /\ batch.results[i].name = server_checks[i].name
              /\ IF tasks[i].status = "raised"
                 THEN /\ batch.results[i].status = "error"
                      /\ batch.results[i].transport = server_checks[i].transport
                 ELSE /\ batch.results[i].status = tasks[i].status
                      /\ batch.results[i].transport = tasks[i].transport

\* the first probe raised, the second one returned online
C4_Witness ==
    /\ batch.phase = "returned"
    /\ Len(tasks) = 2
    /\ tasks[1].status = "raised"
    /\ batch.results[1].status = "error"
    /\ batch.results[1].transport = "stdio"
    /\ tasks[2].status = "online"
    /\ batch.results[2].status = "online"

(***************************************************************************)
(* Properties of the probes of HealthMonitor.                              *)
(***************************************************************************)

\* C11: the overall_status of get_probe_status follows the priority critical
\* (liveness DOWN) > starting (startup DOWN) > unready (readiness DOWN) >
\* degraded (the degraded flag) > healthy, for every combination of the
\* probes of the same answer.
C11_OverallStatusPriority ==
    hm_ret.op = "get_probe_status"
        => /\ hm_ret.liveness = "DOWN" => hm_ret.overall = "critical"
           /\ (hm_ret.liveness = "UP" /\ hm_ret.startup = "DOWN")
                 => hm_ret.overall = "starting"
           /\ ( /\ hm_ret.liveness = "UP" /\ hm_ret.startup = "UP"
                /\ hm_ret.readiness = "DOWN" )
                 => hm_ret.overall = "unready"
           /\ ( /\ hm_ret.liveness = "UP" /\ hm_ret.startup = "UP"
                /\ hm_ret.readiness = "UP" /\ hm_ret.degraded )
                 => hm_ret.overall = "degraded"
           /\ ( /\ hm_ret.liveness = "UP" /\ hm_ret.startup = "UP"
                /\ hm_ret.readiness = "UP" /\ ~hm_ret.degraded )
                 => hm_ret.overall = "healthy"

\* ten failures in a row during startup: critical wins over starting
C11_Witness ==
    /\ hm_ret.op = "get_probe_status"
    /\ hm_ret.liveness = "DOWN"
    /\ hm_ret.startup = "DOWN"
    /\ hm_ret.readiness = "DOWN"
    /\ hm_ret.overall = "critical"

\* the step is a call of record_request
RecordCalled == monitor'.total_requests = monitor.total_requests + 1

\* C12: record_request counts the outcome first.  When the window has
\* elapsed (now - last_sampling_reset > sampling_interval) _check_readiness
\* runs on the rejection_count that includes this outcome (a ready monitor
\* past startup trips exactly when that count exceeds allowed_rejections),
\* and then rejection_count is 0 and last_sampling_reset is now.  When the
\* window has not elapsed there is no check and no reset.
C12_RolloverAfterCounters ==
    [][ RecordCalled
        => IF clock - monitor.last_sampling_reset > monitor.sampling_interval
           THEN /\ hm_ret'.checked = clock
                /\ monitor'.rejection_count = 0
                /\ monitor'.last_sampling_reset = clock
                /\ ( /\ monitor.is_ready
                     /\ clock - monitor.server_start_time
                            >= monitor.startup_duration )
                      => ( ~monitor'.is_ready
                             <=> RejectionsAtCall > monitor.allowed_rejections )
           ELSE /\ hm_ret'.checked = None
                /\ monitor'.rejection_count = RejectionsAtCall
                /\ monitor'.last_sampling_reset = monitor.last_sampling_reset
                /\ monitor'.is_ready = monitor.is_ready
                /\ monitor'.unready_since = monitor.unready_since ]_vars

\* a failure recorded after the window elapsed has tripped readiness, and
\* the window has been reset
C12_Witness ==
    /\ hm_ret.op = "record_failure"
    /\ hm_ret.logged = "UNREADY"
    /\ hm_ret.checked = clock
    /\ ~monitor.is_ready
    /\ monitor.rejection_count = 0
    /\ monitor.last_sampling_reset = clock

\* the step is a call of one of the four status queries
QueryCalled ==
    /\ hm_ret' # hm_ret \/ monitor' # monitor
    /\ hm_ret'.op \in {"get_startup_status", "get_liveness", "get_readiness",
                       "get_probe_status"}

\* C13 as stated: no status query changes a field of the monitor.
C13_QueriesHaveNoSideEffects ==
    [][ QueryCalled => monitor' = monitor ]_vars

\* C13 as amended: get_startup_status and get_liveness change no field.
\* get_readiness and get_probe_status change no counter and not the window
\* (rejection_count, last_sampling_reset, total_requests, failed_requests,
\* failure_count); they change is_ready and unready_since only when
\* now - last_sampling_reset > sampling_interval, by the _check_readiness
\* they then run.
C13_QueriesChangeOnlyReadiness ==
    [][ QueryCalled
        => /\ [monitor' EXCEPT !.is_ready = monitor.is_ready,
                               !.unready_since = monitor.unready_since]
                = monitor
           /\ hm_ret'.op \in {"get_startup_status", "get_liveness"}
                => monitor' = monitor /\ hm_ret'.checked = None
           /\ monitor' # monitor
                => /\ hm_ret'.checked = clock'
                   /\ clock' - monitor.last_sampling_reset
                         > monitor.sampling_interval
           /\ hm_ret'.checked # None
                <=> ( /\ hm_ret'.op \in {"get_readiness", "get_probe_status"}
                      /\ clock' - monitor.last_sampling_reset
                            > monitor.sampling_interval ) ]_vars

\* get_readiness has just made the monitor ready (the first check after
\* startup), with no record_request ever called
C13_Witness ==
    /\ hm_ret.op = "get_readiness"
    /\ hm_ret.logged = "READY_startup"
    /\ hm_ret.checked = clock
    /\ monitor.is_ready
    /\ monitor.total_requests = 0

\* the handlers that have called record_request with one of outcomes
Recorded(outcomes) ==
    Cardinality({h \in DOMAIN handlers : handlers[h].recorded \in outcomes})

\* C14: whatever the interleaving of the request handlers, total_requests
\* is the number of record_request calls made so far and failed_requests
\* the number of those that reported a failure: no update is lost.
C14_NoLostUpdate ==
    /\ monitor.total_requests = Recorded({"success", "failure"})
    /\ monitor.failed_requests = Recorded({"failure"})

\* the second and third requests have recorded a failure and a success
\* while the first one, which came before them, still awaits its tool
C14_Witness ==
    /\ Len(handlers) = 3
    /\ handlers[1].pc = "calling"
    /\ handlers[1].seen.total_requests = 0
    /\ handlers[2].recorded = "failure"
    /\ handlers[3].recorded = "success"
    /\ monitor.total_requests = 2
    /\ monitor.failed_requests = 1

\* the probes of the large batch that hold a permit
PoolHolders == pool.spawning + pool.spawned + pool.teardown

\* C15: a stdio probe gives its permit back when it ends, whether it
\* returns or raises: the permits that are out are those of the probes
\* inside "async with", so a probe waits for a permit only while 16 others
\* are running, and when the batch has returned all 16 permits are back.
C15_PermitsComeBack ==
    /\ batch.phase = "gathering"
         => /\ max_concurrent_stdio - stdio_semaphore = PoolHolders
            /\ (pool.created > 0 /\ stdio_semaphore = 0)
                  => PoolHolders = max_concurrent_stdio
    /\ batch.phase = "returned"
         => /\ stdio_semaphore = max_concurrent_stdio
            /\ PoolHolders = 0 /\ pool.created = 0

\* a batch of more than 16 probes has returned, two of them raised
C15_Witness ==
    /\ batch.phase = "returned"
    /\ batch.total_checked > max_concurrent_stdio
    /\ pool.raised = 2
    /\ stdio_semaphore = max_concurrent_stdio

(***************************************************************************)
(* Properties of the results of the probes.                                *)
(***************************************************************************)

\* C16: in the result of the batch the counts of online, offline and error
\* servers add up to total_checked, whatever the status of each result.
C16_CountsCoverEveryResult ==
    batch.phase = "returned"
        => batch.servers_online + batch.servers_offline + batch.servers_error
             = batch.total_checked

\* the dict of task i, pending in the finally clause or returned
HasDict(i) ==
    /\ tasks[i].pc \in {"wait1", "wait2", "done"}
    /\ tasks[i].status # "raised"

C18_AliveAtTimeoutIsOnline ==
    \A i \in DOMAIN tasks :
        ( \/ tasks[i].note = "slow response (process running)"
          \/ tasks[i].lost.note = "slow response (process running)" )
            => /\ tasks[i].status = "online"
               /\ batch.phase = "returned"
                    => batch.results[i].status = "online"

\* the errors of the dicts that check_stdio_server returns for a process
\* that has exited
ExitNotes ==
    {"exited immediately", "broken pipe", "empty response", "timeout"}

\* the errors of the dicts that its except clauses return
ExceptNotes == {"command not found", "permission denied", "exception"}

\* C19 as stated: a stdio probe returns partial only for a process that has
\* exited, with an alternative transport found; a partial dict has
\* alternative transports; an exited process without one is offline.
C19_PartialOnlyAfterExit ==
    \A i \in DOMAIN tasks :
        HasDict(i)
            => /\ tasks[i].status = "partial"
                    => tasks[i].note \in ExitNotes /\ tasks[i].alt
               /\ (tasks[i].note \in ExitNotes /\ ~tasks[i].alt)
                    => tasks[i].status = "offline"

\* C19 as amended: a stdio probe returns partial only when an alternative
\* transport was found and the stdio channel failed, either because the
\* process has exited or because the spawn or the handshake raised (command
\* not found, permission denied, another exception); a partial dict has
\* alternative transports; an exited process without one is offline.
C19_PartialOnlyWithAlternative ==
    \A i \in DOMAIN tasks :
        HasDict(i)
            => /\ tasks[i].status = "partial"
                    => /\ tasks[i].note \in ExitNotes \cup ExceptNotes
                       /\ tasks[i].alt
                       /\ tasks[i].transport = "stdio"
               /\ (tasks[i].note \in ExitNotes /\ ~tasks[i].alt)
                    => tasks[i].status = "offline"
               /\ (tasks[i].note \in ExceptNotes /\ ~tasks[i].alt)
                    => tasks[i].status = "error"
               /\ batch.phase = "returned"
                    => batch.results[i].status = tasks[i].status

\* the batch has returned partial for a server that closed its output and
\* exited, found on another transport
C19_Witness ==
    /\ batch.phase = "returned"
    /\ batch.results[1].status = "partial"
    /\ tasks[1].note = "empty response"
    /\ tasks[1].alt

\* C20: check_http_server gives online for every response of its GET,
\* whatever the status code, 4xx and 5xx included; offline for a connection
\* failure and for a timeout; error for any other exception.  No response
\* gives offline or error, and the batch reports what the probe returned.
C20_AnyResponseIsOnline ==
    \A i \in DOMAIN tasks :
        (tasks[i].pc = "done" /\ tasks[i].transport = "http"
            /\ tasks[i].note # "no URL specified")
            => /\ tasks[i].http_status # 0 <=> tasks[i].status = "online"
               /\ tasks[i].note \in {"timeout", "connection_refused"}
                    <=> tasks[i].status = "offline"
               /\ tasks[i].note = "exception" <=> tasks[i].status = "error"
               /\ batch.phase = "returned"
                    => batch.results[i].status = tasks[i].status

\* the batch has returned online for a server that answered 404
C20_Witness ==
    /\ batch.phase = "returned"
    /\ tasks[1].transport = "http"
    /\ tasks[1].http_status = 404
    /\ batch.results[1].status = "online"

\* the errors of the dicts for a descriptor that names nothing to try
UnattemptableNotes ==
    {"no command specified", "no URL specified", "unknown transport type"}

\* C21 as stated: a descriptor that cannot be attempted is classified
\* error: a missing or forbidden executable, no command, no URL, an unknown
\* transport and any other exception give error, never online, offline or
\* partial.
C21_UnattemptableIsError ==
    \A i \in DOMAIN tasks :
        /\ (tasks[i].pc = "done"
              /\ tasks[i].note \in UnattemptableNotes \cup ExceptNotes)
             => tasks[i].status = "error"
        /\ (batch.phase = "returned"
              /\ ( \/ tasks[i].status = "raised"
                   \/ tasks[i].note \in UnattemptableNotes \cup ExceptNotes ))
             => batch.results[i].status = "error"

\* C21 as amended: no command, no URL, an unknown transport and an exception
\* that escapes the probe give error; a missing or forbidden executable and
\* any other exception caught inside check_stdio_server give error when no
\* alternative transport was found, and partial when one was; none of them
\* gives online or offline.
C21_UnattemptableIsErrorOrPartial ==
    \A i \in DOMAIN tasks :
        /\ (tasks[i].pc = "done" /\ tasks[i].note \in UnattemptableNotes)
             => tasks[i].status = "error"
        /\ (tasks[i].pc = "done" /\ tasks[i].note \in ExceptNotes)
             => tasks[i].status = IF tasks[i].alt THEN "partial" ELSE "error"
        /\ batch.phase = "returned"
             => /\ tasks[i].status = "raised"
                    => batch.results[i].status = "error"
                /\ tasks[i].note \in UnattemptableNotes
                    => batch.results[i].status = "error"
                /\ tasks[i].note \in ExceptNotes
                    => batch.results[i].status =
                          IF tasks[i].alt THEN "partial" ELSE "error"

\* the batch has returned error for a server whose command was not found
\* and that answered on no other transport
C21_Witness ==
    /\ batch.phase = "returned"
    /\ tasks[1].note = "command not found"
    /\ ~tasks[1].alt
    /\ batch.results[1].status = "error"

\* C22: every wait of a stdio probe is bounded by a timeout, so the probe
\* ends whatever the subprocess does, and the batch completes.
C22_BatchCompletes == <>(batch.phase = "returned")

\* the entries of the dict that the batch returns
ReturnedEntries ==
    batch.online_servers \o batch.offline_servers \o batch.error_servers

\* C23: whatever the probes do, the value that the batch returns is a
\* complete result: it holds one entry for every descriptor probed.
C23_ReturnedValueIsComplete ==
    batch.phase = "returned"
        => /\ batch.total_checked = Len(server_checks)
           /\ \A i \in DOMAIN server_checks :
                 Occurrences(ReturnedEntries, server_checks[i].name) = 1

(***************************************************************************)
(* Properties of the selection of the servers.                             *)
(***************************************************************************)

\* how many probes, and how many results, a configured server should have
Expected(name) == IF name \in CRITICAL_SERVERS THEN 1 ELSE 0

\* C24: with critical_only set the batch probes exactly the configured
\* servers whose name is in CRITICAL_SERVERS: a server outside it has no
\* coroutine, hence no subprocess and no request, and a server inside it has
\* one coroutine and, when the batch returns, one result.
C24_CriticalOnlyProbesTheSubset ==
    (critical_only /\ batch.phase # "idle")
        => /\ DOMAIN tasks = DOMAIN server_checks
           /\ \A i \in DOMAIN server_checks :
                 server_checks[i].name \in CRITICAL_SERVERS
           /\ \A j \in DOMAIN all_mcp_servers :
                 /\ Occurrences(server_checks, all_mcp_servers[j].name)
                       = Expected(all_mcp_servers[j].name)
                 /\ batch.phase = "returned"
                       => Occurrences(batch.results, all_mcp_servers[j].name)
                            = Expected(all_mcp_servers[j].name)

\* a critical-only batch over a critical stdio server and a server that is
\* not critical has returned one result, after one spawn
C24_Witness ==
    /\ critical_only
    /\ batch.phase = "returned"
    /\ Len(all_mcp_servers) >= 2
    /\ all_mcp_servers[2].name \notin CRITICAL_SERVERS
    /\ Len(batch.results) = Len(all_mcp_servers) - 1
    /\ tasks[1].spawns = 1

(***************************************************************************)
(* Properties of the configuration of HealthMonitor.                       *)
(***************************************************************************)

\* the configuration of a monitor
Configuration(m) ==
    <<m.allowed_rejections, m.sampling_interval, m.recovery_interval,
      m.startup_duration, m.degraded_threshold>>

\* C25: the recovery interval of a monitor is the recovery_interval_seconds
\* it was constructed with whenever one was given, and twice the sampling
\* interval only when none was given; no call changes the configuration.
C25_RecoveryIntervalAsConfigured ==
    /\ [](hm_ret.op = "init"
            => monitor.recovery_interval =
                 IF hm_ret.recovery_interval_seconds # None
                 THEN hm_ret.recovery_interval_seconds
                 ELSE 2 * monitor.sampling_interval)
    /\ [][Configuration(monitor') = Configuration(monitor)]_vars

(***************************************************************************)
(* Properties of the rate limiter and of the session tokens.               *)
(***************************************************************************)

\* the calls before call k that is_allowed admitted for the client of call
\* k less than a window before call k
AdmittedInWindow(k) ==
    {j \in 1..(k - 1) :
        /\ limiter_calls[j].client = limiter_calls[k].client
        /\ limiter_calls[j].allowed
        /\ limiter_calls[j].at > limiter_calls[k].at - rate_limiter.window}

\* the calls that is_allowed admitted for a client after one instant and up
\* to another
AdmittedBetween(client_id, after, upto) ==
    {j \in DOMAIN limiter_calls :
        /\ limiter_calls[j].client = client_id
        /\ limiter_calls[j].allowed
        /\ limiter_calls[j].at > after
        /\ limiter_calls[j].at <= upto}

\* the last call of a client, 0 when it has not called
LastCall(client_id) ==
    IF \E k \in DOMAIN limiter_calls : limiter_calls[k].client = client_id
    THEN CHOOSE k \in DOMAIN limiter_calls :
            /\ limiter_calls[k].client = client_id
            /\ \A j \in DOMAIN limiter_calls :
                  limiter_calls[j].client = client_id => j <= k
    ELSE 0

\* C26: is_allowed admits a call exactly when fewer than max_attempts calls
\* of the same client were admitted within the window before it, so no
\* window holds more than max_attempts admitted calls of one client; a call
\* that is refused is not recorded, and the calls of other clients do not
\* count.
C26_AtMostMaxAttemptsPerWindow ==
    /\ \A k \in DOMAIN limiter_calls :
          /\ limiter_calls[k].allowed
                <=> Cardinality(AdmittedInWindow(k)) < rate_limiter.max_attempts
    /\ \A c \in Clients, t \in 0..MaxLimiterTime :
          Cardinality(AdmittedBetween(c, t - rate_limiter.window, t))
              <= rate_limiter.max_attempts
    /\ \A c \in Clients :
          /\ Len(rate_limiter.attempts[c]) <= rate_limiter.max_attempts
          /\ Len(rate_limiter.attempts[c]) =
                IF LastCall(c) = 0 THEN 0
                ELSE Cardinality(AdmittedInWindow(LastCall(c)))
                       + (IF limiter_calls[LastCall(c)].allowed THEN 1 ELSE 0)

\* a client is refused while another client is admitted at the same
\* instant, and is admitted again when its window has passed
C26_Witness ==
    \E i, j, k \in DOMAIN limiter_calls :
        /\ i < j /\ j < k
        /\ limiter_calls[i].client = limiter_calls[k].client
        /\ limiter_calls[j].client # limiter_calls[i].client
        /\ ~limiter_calls[i].allowed
        /\ limiter_calls[j].allowed
        /\ limiter_calls[j].at = limiter_calls[i].at
        /\ limiter_calls[k].allowed

\* a session token that was made and is gone, revoked or expired
Dead(id) ==
    /\ id <= issued
    /\ \/ id \notin DOMAIN tokens
       \/ tokens[id].revoked_at # None
       \/ tokens[id].expires_at <= clock

\* this step is a call of validate_token
ValidateCalled == auth_ret'.op = "validate_token" /\ clock' = clock

\* this step is a call of revoke_token that returns True
RevokeSucceeded ==
    /\ auth_ret'.op = "revoke_token"
    /\ auth_ret'.result
    /\ clock' = clock
    /\ tokens' # tokens \/ auth_ret' # auth_ret

\* C27: validate_token returns True for a session token only while the
\* token is stored, not revoked and not expired; a revoke_token that
\* succeeds leaves the token revoked, and no step makes a token that is
\* revoked, expired or removed valid again: validate_token returns False
\* for it ever after.
C27_RevokedOrExpiredStaysInvalid ==
    [][ /\ (ValidateCalled /\ auth_ret'.result)
             => /\ auth_ret'.token \in DOMAIN tokens
                /\ tokens[auth_ret'.token].revoked_at = None
                /\ tokens[auth_ret'.token].expires_at > clock
                /\ ~Dead(auth_ret'.token)
        /\ RevokeSucceeded
             => /\ auth_ret'.token \in DOMAIN tokens'
                /\ tokens'[auth_ret'.token].revoked_at # None
        /\ \A id \in TokenIds : Dead(id) => Dead(id)' ]_vars

\* validate_token has returned False for a token that is stored and not
\* expired, but revoked
C27_Witness ==
    /\ auth_ret.op = "validate_token"
    /\ ~auth_ret.result
    /\ auth_ret.token \in DOMAIN tokens
    /\ tokens[auth_ret.token].revoked_at # None
    /\ tokens[auth_ret.token].expires_at > clock

(***************************************************************************)
(* Properties of the teardown of the subprocess.                           *)
(***************************************************************************)

\* task i goes from one place to another in this step
Moves(i, from, to) ==
    /\ i \in DOMAIN tasks
    /\ i \in DOMAIN tasks'
    /\ tasks[i].pc = from
    /\ tasks'[i].pc = to

\* C28: the teardown calls proc.terminate() first and then waits; it calls
\* proc.kill() only when that first wait has timed out, the process not
\* having been seen to exit, and after the kill it waits once more and
\* ends.  A process seen to exit during the first wait is not killed.
C28_TeardownOrder ==
    [][\A i \in 1..MaxServers + 1 :
          /\ (i \in DOMAIN tasks' /\ tasks'[i].pc = "wait1")
                => /\ i \in DOMAIN tasks
                   /\ \/ tasks[i].pc = "wait1"
                      \/ tasks'[i].teardowns = tasks[i].teardowns + 1
          /\ (i \in DOMAIN tasks' /\ tasks'[i].pc = "wait2")
                => /\ i \in DOMAIN tasks
                   /\ tasks[i].pc \in {"wait1", "wait2"}
          /\ Moves(i, "wait1", "wait2") => tasks[i].proc # "reaped"
          /\ (i \in DOMAIN tasks /\ tasks[i].pc = "wait1"
                /\ tasks[i].proc = "reaped")
                => tasks'[i].pc \in {"wait1", "done"}
          /\ (i \in DOMAIN tasks /\ tasks[i].pc = "wait2")
                => tasks'[i].pc \in {"wait2", "done"} ]_vars

\* the first wait has timed out on a process that is still alive, and the
\* teardown has killed it and waits again
C28_Witness ==
    \E i \in DOMAIN tasks :
        /\ tasks[i].pc = "wait2"
        /\ tasks[i].proc = "alive"
        /\ tasks[i].teardowns = 1

\* C29: the teardown never raises: a probe that has run its finally clause
\* ends with the dict it had computed, which is never replaced by an
\* exception of proc.terminate(), proc.kill() or the waits.
C29_TeardownNeverRaises ==
    \A i \in DOMAIN tasks :
        tasks[i].teardowns > 0
            => /\ tasks[i].status # "raised"
               /\ tasks[i].lost = NoDict
               /\ batch.phase = "returned"
                    => batch.results[i].status = tasks[i].status

\* the write of the initialize request of task i has failed with a broken
\* pipe, and the probe has gone on to read the response
BrokenPipeSeen(i) ==
    /\ i \in DOMAIN tasks
    /\ tasks[i].pc \in {"reading", "stderr"}
    /\ tasks[i].note = "broken pipe"

\* C30: a probe whose write of the initialize request fails with a broken
\* pipe ends as one whose process exited at once: offline, or partial when
\* an alternative transport was found, and never online, whether or not
\* the exit of the process had been seen when the write failed.
C30_BrokenPipeIsNeverOnline ==
    [][\A i \in 1..MaxServers + 1 :
          (BrokenPipeSeen(i) /\ tasks'[i].pc \in {"wait1", "wait2", "done"})
              => /\ tasks'[i].status = exit_status(tasks'[i].alt)
                 /\ tasks'[i].status # "online" ]_vars

(***************************************************************************)
(* Properties of the reading of the response.                              *)
(***************************************************************************)

\* readline of task i returns the empty line of end of file in this step:
\* the probe leaves the read with one of the two outcomes of lines 688-721
EndOfOutputRead(i) ==
    /\ i \in DOMAIN tasks
    /\ tasks[i].pc = "reading"
    /\ tasks'[i].pc # "reading"
    /\ tasks'[i].note \in {"process running (no immediate response)",
                            "empty response"}

\* C31: when readline returns the empty line the probe gives online only if
\* the process is still alive; for a process that has exited, seen by the
\* event loop or not yet, it reads stderr and gives offline or partial.
C31_EndOfOutputOfDeadProcessIsNotOnline ==
    [][\A i \in 1..MaxServers + 1 :
          EndOfOutputRead(i)
              => IF tasks[i].proc = "alive"
                 THEN tasks'[i].status \in {"online", "raised"}
                 ELSE /\ tasks'[i].pc = "stderr"
                      /\ tasks'[i].status # "online" ]_vars

\* readline of task i returns a line that is not empty in this step: the
\* probe leaves the read for its finally clause with another outcome than
\* those of the empty line and of the timeout
LineRead(i) ==
    /\ i \in DOMAIN tasks
    /\ tasks[i].pc = "reading"
    /\ tasks'[i].pc \in {"wait1", "wait2", "done"}
    /\ tasks'[i].note # "process running (no immediate response)"
    /\ tasks'[i].note # "slow response (process running)"
    /\ tasks'[i].lost.note # "process running (no immediate response)"
    /\ tasks'[i].lost.note # "slow response (process running)"

\* C32: for every first line that is not empty the dict that the probe
\* computes has status online, whatever the line holds: a JSON-RPC
\* response, any other JSON value, or text that is no JSON.
C32_AnyLineIsOnline ==
    [][\A i \in 1..MaxServers + 1 :
          LineRead(i)
              => \/ tasks'[i].status = "online"
                 \/ /\ tasks'[i].status = "raised"
                    /\ tasks'[i].lost.status = "online" ]_vars

(***************************************************************************)
(* Properties of a pass of the batch.                                      *)
(***************************************************************************)

\* C33: in one pass no probe is tried again: a stdio server has at most one
\* subprocess spawned and no GET, an http server at most one GET and no
\* subprocess, whatever the probe comes to.
C33_NoRetryWithinAPass ==
    \A i \in DOMAIN tasks :
        /\ tasks[i].spawns <= 1
        /\ tasks[i].gets <= 1
        /\ server_checks[i].transport # "stdio" => tasks[i].spawns = 0
        /\ server_checks[i].transport # "http" => tasks[i].gets = 0

\* the batch has returned offline for a stdio server after one spawn and
\* for an http server after one GET
C33_Witness ==
    /\ batch.phase = "returned"
    /\ Len(tasks) >= 2
    /\ tasks[1].spawns = 1
    /\ batch.results[1].status = "offline"
    /\ tasks[2].gets = 1
    /\ batch.results[2].status = "offline"

\* the descriptors of the batch with a transport
Descriptors(transport) ==
    {i \in DOMAIN server_checks : server_checks[i].transport = transport}

\* C34: in the result of the batch the counts by transport agree with the
\* overall counts: for online, offline and error the stdio count and the
\* http count add up to the overall count, and the total of a transport is
\* the number of its descriptors in the batch.
C34_TransportCountsAgree ==
    batch.phase = "returned"
        => /\ batch.stdio.online + batch.http.online = batch.servers_online
           /\ batch.stdio.offline + batch.http.offline = batch.servers_offline
           /\ batch.stdio.error + batch.http.error = batch.servers_error
           /\ batch.stdio.online + batch.stdio.offline + batch.stdio.error
                = Cardinality(Descriptors("stdio"))
           /\ batch.http.online + batch.http.offline + batch.http.error
                = Cardinality(Descriptors("http"))

(***************************************************************************)
(* The monitor watched through its public calls: record_request,           *)
(* get_readiness and get_probe_status, with the passing of time.           *)
(* failed_since_ready remembers whether a failure was recorded since the   *)
(* monitor last went from not ready to ready.                              *)
(***************************************************************************)
\* the history after a call that took the monitor from m to m2 and recorded
\* a failure (failed) or none
since_ready(m, m2, failed) ==
    IF ~m.is_ready /\ m2.is_ready THEN FALSE ELSE failed_since_ready \/ failed

WatchedRecordOutcome ==
    /\ monitor.total_requests < MaxRequests
    /\ \E success \in BOOLEAN :
        /\ monitor' = record_request(monitor, success, clock).monitor
        /\ hm_ret' = [NoRet EXCEPT
                !.op = IF success THEN "record_success" ELSE "record_failure",
                !.logged = record_request(monitor, success, clock).logged,
                !.checked = record_request(monitor, success, clock).checked]
        /\ failed_since_ready' = since_ready(monitor, monitor', ~success)
    /\ UNCHANGED clock
    /\ UNCHANGED <<SSE_TIMEOUT, invocations>>
    /\ UNCHANGED batchVars

WatchedGetReadiness ==
    /\ monitor' = get_readiness(monitor, clock).monitor
    /\ hm_ret' = get_readiness(monitor, clock).ret
    /\ failed_since_ready' = since_ready(monitor, monitor', FALSE)
    /\ UNCHANGED clock
    /\ UNCHANGED <<SSE_TIMEOUT, invocations>>
    /\ UNCHANGED batchVars

WatchedGetProbeStatus ==
    \E now3 \in {clock, clock + 1} :
        /\ now3 <= MaxTime
        /\ monitor' = get_probe_status(monitor, clock, now3).monitor
        /\ hm_ret' = get_probe_status(monitor, clock, now3).ret
        /\ failed_since_ready' = since_ready(monitor, monitor', FALSE)
        /\ clock' = now3
        /\ UNCHANGED <<SSE_TIMEOUT, invocations>>
        /\ UNCHANGED batchVars

NextWatched ==
    \/ Tick
    \/ WatchedRecordOutcome
    \/ WatchedGetReadiness
    \/ WatchedGetProbeStatus

SpecWatched == InitHM /\ [][NextWatched]_vars

\* C35: readiness does not flap through status reads alone: whenever the
\* monitor goes from ready to not ready, a failure was recorded since it last
\* became ready, by an earlier call or by the call that trips it.
C35_NoFlappingThroughReads ==
    [][(monitor.is_ready /\ ~monitor'.is_ready)
          => (failed_since_ready \/ hm_ret'.op = "record_failure")]_vars

\* C36: in every state reached through RecordOutcome, Recompute and the
\* status queries, a ready monitor has unready_since unset; so unready_since
\* is set only while the monitor is not ready.
C36_ReadyHasNoUnreadySince ==
    monitor.is_ready => monitor.unready_since = None

\* the monitor is ready again after a trip: the recovery has just cleared
\* unready_since
C36_Witness ==
    /\ hm_ret.logged = "READY_recovery"
    /\ monitor.is_ready
    /\ monitor.unready_since = None
    /\ monitor.failed_requests > monitor.allowed_rejections

\* C37: in every reachable state of the monitor rejection_count <=
\* failed_requests <= total_requests and the consecutive failures
\* (failure_count) are at most failed_requests, and no step lowers
\* total_requests or failed_requests.
C37_CountersAreOrdered ==
    /\ [](/\ 0 <= monitor.rejection_count
          /\ monitor.rejection_count <= monitor.failed_requests
          /\ monitor.failed_requests <= monitor.total_requests
          /\ 0 <= monitor.failure_count
          /\ monitor.failure_count <= monitor.failed_requests)
    /\ [][/\ monitor'.total_requests >= monitor.total_requests
          /\ monitor'.failed_requests >= monitor.failed_requests]_vars

\* after failures, a success has reset the consecutive failures and a
\* rollover the rejection count, while the totals keep them
C37_Witness ==
    /\ monitor.failed_requests >= 2
    /\ monitor.total_requests > monitor.failed_requests
    /\ monitor.rejection_count = 0
    /\ monitor.failure_count = 0
    /\ hm_ret.op = "record_success"

(***************************************************************************)
(* The monitor over a longer stretch of time, in which datetime.now()      *)
(* keeps advancing and get_readiness keeps being called (the orchestrator  *)
(* polls /health/ready).                                                   *)
(***************************************************************************)
MaxRecoveryTime == 8

RecoveryTick == TickUpTo(MaxRecoveryTime)

RecoveryGetProbeStatus == GetProbeStatusUpTo(MaxRecoveryTime)

NextRecovery ==
    \/ RecoveryTick
    \/ RecordOutcome
    \/ Recompute
    \/ GetReadiness
    \/ RecoveryGetProbeStatus

SpecRecovery == InitHM /\ [][NextRecovery]_vars

FairRecovery ==
    /\ SpecRecovery
    /\ WF_vars(RecoveryTick)
    /\ WF_vars(GetReadiness)

\* the monitor is not ready after its startup phase, early enough for the
\* clock of the model to pass the recovery interval and one sampling window
UnreadyAfterStartup ==
    /\ ~monitor.is_ready
    /\ ~in_startup(monitor, clock)
    /\ clock + monitor.recovery_interval + monitor.sampling_interval + 1
          <= MaxRecoveryTime

\* C38: readiness always recovers: from a state in which startup has elapsed
\* and the monitor is not ready, if time keeps advancing and get_readiness
\* keeps being called, the monitor eventually becomes ready, whatever
\* outcomes are recorded in the meantime.
C38_ReadinessRecovers == UnreadyAfterStartup ~> monitor.is_ready

\* a read has restored readiness after a trip during which only failures
\* were recorded
C38_Witness ==
    /\ hm_ret.op = "get_readiness"
    /\ hm_ret.logged = "READY_recovery"
    /\ monitor.is_ready
    /\ monitor.failed_requests = monitor.total_requests
    /\ monitor.total_requests = MaxRequests

(***************************************************************************)
(* Overlapping calls of handle_check_all_health on the one event loop.     *)
(* Each saves the module-level SSE_TIMEOUT in its local original_timeout   *)
(* and sets it to its timeout argument (lines 1649-1650), awaits the       *)
(* gathered probes, and assigns original_timeout back in its finally       *)
(* clause (line 1802).  A step is the code between two awaits.             *)
(***************************************************************************)
MaxInvocations == 3

\* arguments.get("timeout", 5)
TimeoutInputs == {1, 5, 10}

Gathering == {i \in DOMAIN invocations : invocations[i].pc = "gathering"}

InitOverlap ==
    /\ clock = 0
    /\ OthersIdle
    /\ monitor = HealthMonitorInit(1, 1, None, 0, 25, 0)
    /\ hm_ret = NoRet
    /\ BatchIdle

\* lines 1645-1716: up to "await asyncio.gather(*tasks)", which suspends the
\* invocation when there is a task to wait for.  quiet records that no other
\* invocation was running when this one started.
InvocationStarts ==
    /\ Len(invocations) < MaxInvocations
    /\ \E timeout \in TimeoutInputs :
        /\ invocations' = Append(invocations,
              [pc |-> "gathering", timeout |-> timeout,
               original_timeout |-> SSE_TIMEOUT, quiet |-> Gathering = {}])
        /\ SSE_TIMEOUT' = timeout
    /\ UNCHANGED hmVars
    /\ UNCHANGED batchVars
    /\ UNCHANGED failed_since_ready

\* the same with nothing to wait for (no server selected, or
\* parse_mcp_servers raises): the finally clause runs in the same step
InvocationRunsThrough ==
    /\ Len(invocations) < MaxInvocations
    /\ \E timeout \in TimeoutInputs :
        /\ invocations' = Append(invocations,
              [pc |-> "returned", timeout |-> timeout,
               original_timeout |-> SSE_TIMEOUT, quiet |-> Gathering = {}])
        /\ SSE_TIMEOUT' = SSE_TIMEOUT
    /\ UNCHANGED hmVars
    /\ UNCHANGED batchVars
    /\ UNCHANGED failed_since_ready

\* lines 1716-1802: the gather is over; the result or the error is returned
\* and "finally: SSE_TIMEOUT = original_timeout" runs
InvocationReturns ==
    /\ \E i \in Gathering :
        /\ invocations' = [invocations EXCEPT ![i].pc = "returned"]
        /\ SSE_TIMEOUT' = invocations[i].original_timeout
    /\ UNCHANGED hmVars
    /\ UNCHANGED batchVars
    /\ UNCHANGED failed_since_ready

NextOverlap ==
    \/ InvocationStarts
    \/ InvocationRunsThrough
    \/ InvocationReturns

SpecOverlap == InitOverlap /\ [][NextOverlap]_vars

\* the last invocation that started while no other was running: its
\* original_timeout is the value SSE_TIMEOUT had before the invocations that
\* overlap it
FirstOfGroup ==
    CHOOSE i \in DOMAIN invocations :
        /\ invocations[i].quiet
        /\ \A j \in DOMAIN invocations : invocations[j].quiet => j <= i

\* C39: once every invocation that has started has returned, SSE_TIMEOUT has
\* the value it had before the first of the overlapping invocations started.
C39_TimeoutRestored ==
    (invocations # << >> /\ Gathering = {})
        => SSE_TIMEOUT = invocations[FirstOfGroup].original_timeout

\* C40: in a snapshot returned by get_probe_status the readiness probe gives
\* reason startup_incomplete only when the startup probe of the same snapshot
\* is DOWN; with startup UP and readiness DOWN the reason is
\* rejection_threshold_exceeded, and overall status unready goes with a
\* tripped rejection threshold (unready_since set).
C40_StartupIncompleteOnlyWhileStarting ==
    hm_ret.op = "get_probe_status" =>
        /\ hm_ret.reason = "startup_incomplete" => hm_ret.startup = "DOWN"
        /\ (hm_ret.startup = "UP" /\ hm_ret.readiness = "DOWN")
              => hm_ret.reason = "rejection_threshold_exceeded"
        /\ hm_ret.overall = "unready" => monitor.unready_since # None
=============================================================================
